---- MODULE Spec2Model ----
(***************************************************************************)
(* State-machine model of the compiler-compiler:                           *)
(*   - LexerGenerator (regex AST -> Thompson NFA -> subset-construction    *)
(*     DFA -> longest-match scanner),                                      *)
(*   - ParserGenerator (grammar transformation, FIRST/FOLLOW/SELECT,       *)
(*     LL(1) check, predictive parser with syntax-directed translation),   *)
(*   - the GeneratedParser emitted by generate_parser_code.                *)
(* Three specifications share the module: Spec (the lexer), GrammarSpec    *)
(* (grammar transformation and parsing of small grammars) and CompileSpec  *)
(* (syntax-directed translation over language grammars).                   *)
(***************************************************************************)
EXTENDS Integers, Sequences, FiniteSets, TLC

VARIABLES
    \* ---- LexerGenerator ----
    token_specs,        \* list of <<token_type, regex_pattern>>
    start_dfa,          \* NoDFA, or the DFA built by build()
    alphabet,           \* set of characters of the DFA
    compiled_patterns,  \* compatibility copy of the rules made by build()
    text,               \* argument of the running tokenize call
    pos, line, column,  \* scanner position (pos is 0-based as in the source)
    tokens,             \* tokens emitted so far by the running tokenize call
    lex_pc,             \* "idle" | "scan" | "done" | "error"
    lex_error,          \* NoError, or [line, column, ch] of the SyntaxError
    \* ---- inputs of create_parser_from_spec / generate_compiler_code ----
    grammar_rules,      \* the grammar dictionary handed in
    start,              \* the start symbol handed in
    \* ---- ParserGenerator ----
    grammar,            \* nonterminal -> list of productions
    start_symbol,
    non_terminals, terminals,
    first_sets, follow_sets, select_sets,
    analysis_sets_built,
    p_tokens, p_pos,    \* self.tokens, self.pos of the parser
    code_buffer, temp_counter, label_counter, symbol_table, semantic_errors,
    requires_explicit_declaration,
    pg_pc,              \* "new" | "loaded" | "built" | "failed" | "parsed"
    build_error,        \* NoBuildError, or the exception build_analysis_sets raised
    parse_result,       \* NoResult, or what the last parse call returned or raised
    \* ---- generate_compiler_code ----
    compiler,           \* NoCompiler, or the generated compiler and its parser
    \* ---- GeneratedCompiler.compile_file / CompilerCLI._cmd_compile ----
    output_file         \* NoFile, or the text written to the output file

lexvars == <<token_specs, start_dfa, alphabet, compiled_patterns, text,
             pos, line, column, tokens, lex_pc, lex_error>>

inputvars == <<grammar_rules, start>>

sdtvars == <<code_buffer, temp_counter, label_counter, symbol_table,
             semantic_errors>>

pgvars == <<grammar, start_symbol, non_terminals, terminals, first_sets,
            follow_sets, select_sets, analysis_sets_built, p_tokens, p_pos,
            sdtvars, requires_explicit_declaration, pg_pc, build_error,
            parse_result>>

parservars == <<inputvars, pgvars, compiler, output_file>>

vars == <<lexvars, parservars>>

\* Python's None, for string-valued attributes
None == "None"

\* Stand-ins for None where the attribute holds a number, a DFA, a DFA state
\* or an error record
NoPriority == -1
NoState == {}
NoError == [line |-> 0, column |-> 0, ch |-> ""]

\* ---- bounds of the lexer model ----
MaxRules == 2
MaxTextLen == 2

-----------------------------------------------------------------------------
(* Generic helpers *)

Range(s) == {s[i] : i \in 1..Len(s)}

SetMin(S) == CHOOSE x \in S : \A y \in S : x <= y

SetMax(S) == CHOOSE x \in S : \A y \in S : x >= y

SeqsUpTo(S, n) == UNION {[1..k -> S] : k \in 0..n}

-----------------------------------------------------------------------------
(* Regular-expression ASTs, as RegexParser.parse returns them:             *)
(*   <<"LIT", c>>, <<"EPS">>, <<"CONCAT", subs>>, <<"ALT", subs>>,         *)
(*   <<"STAR", sub>>.   a+ is CONCAT[a, STAR a] (parse_factor).            *)

Lit(c) == <<"LIT", c>>
Eps == <<"EPS">>
Concat(subs) == <<"CONCAT", subs>>
Alt(subs) == <<"ALT", subs>>
Star(sub) == <<"STAR", sub>>

\* Rules the model can add: <<token_type, regex_pattern>>
RuleCatalog ==
    { <<"ASSIGN", "=">>, <<"EQ", "==">>, <<"KW", "a">>, <<"ID", "a+">>,
      <<"DIV", "/">>, <<"AS", "a*">>, <<"EOF", "=">> }

\* RegexParser(pattern).parse() on the patterns of the catalog
RegexParse(pattern) ==
    CASE pattern = "="  -> Lit("=")
      [] pattern = "==" -> Concat(<<Lit("="), Lit("=")>>)
      [] pattern = "a"  -> Lit("a")
      [] pattern = "a+" -> Concat(<<Lit("a"), Star(Lit("a"))>>)
      [] pattern = "/"  -> Lit("/")
      [] pattern = "a*" -> Star(Lit("a"))
      [] pattern = "x*" -> Star(Lit("x"))
      [] pattern = "(x|1)+" ->
            Concat(<<Alt(<<Lit("x"), Lit("1")>>),
                     Star(Alt(<<Lit("x"), Lit("1")>>))>>)
      [] pattern = "=|\\+|;" -> Alt(<<Lit("="), Lit("+"), Lit(";")>>)
      [] pattern = "=\n=" -> Concat(<<Lit("="), Lit("\n"), Lit("=")>>)

\* Characters of the input texts
LexChars == {"a", "=", "/", " ", "\n"}

IsSpace(ch) == ch \in {" ", "\n", "\t", "\r"}

Texts == SeqsUpTo(LexChars, MaxTextLen)

-----------------------------------------------------------------------------
(* Thompson's construction.  NFA states are integers; a fragment is        *)
(* [start, accepts, next, eps, tr] where next is the next unused state id, *)
(* eps the set of <<from, to>> epsilon edges and tr the set of             *)
(* <<from, ch, to>> edges.                                                 *)

RECURSIVE Thompson(_, _)
RECURSIVE ThompsonList(_, _, _)

\* frags = [build(n) for n in node[1]], numbering states from base
ThompsonList(nodes, i, base) ==
    IF i > Len(nodes) THEN <<>>
    ELSE LET f == Thompson(nodes[i], base)
         IN <<f>> \o ThompsonList(nodes, i + 1, f.next)

\* CONCAT: link every accept of cur to the start of the next fragment
RECURSIVE ConcatFrags(_, _, _)
ConcatFrags(frags, i, cur) ==
    IF i > Len(frags) THEN cur
    ELSE LET nxt == frags[i]
         IN ConcatFrags(frags, i + 1,
                [start |-> cur.start, accepts |-> nxt.accepts, next |-> nxt.next,
                 eps |-> cur.eps \cup nxt.eps
                           \cup {<<a, nxt.start>> : a \in cur.accepts},
                 tr |-> cur.tr \cup nxt.tr])

Thompson(node, base) ==
    CASE node[1] = "LIT" ->
            [start |-> base, accepts |-> {base + 1}, next |-> base + 2,
             eps |-> {}, tr |-> {<<base, node[2], base + 1>>}]
      [] node[1] = "EPS" ->
            [start |-> base, accepts |-> {base}, next |-> base + 1,
             eps |-> {}, tr |-> {}]
      [] node[1] = "CONCAT" ->
            LET frags == ThompsonList(node[2], 1, base)
            IN ConcatFrags(frags, 2, frags[1])
      [] node[1] = "ALT" ->
            LET frags == ThompsonList(node[2], 1, base + 1)
                last == IF frags = <<>> THEN base + 1 ELSE frags[Len(frags)].next
            IN [start |-> base,
                accepts |-> UNION {frags[k].accepts : k \in 1..Len(frags)},
                next |-> last,
                eps |-> UNION {frags[k].eps : k \in 1..Len(frags)}
                          \cup {<<base, frags[k].start>> : k \in 1..Len(frags)},
                tr |-> UNION {frags[k].tr : k \in 1..Len(frags)}]
      [] node[1] = "STAR" ->
            LET frag == Thompson(node[2], base)
                st == frag.next
            IN [start |-> st, accepts |-> {st}, next |-> st + 1,
                eps |-> frag.eps \cup {<<st, frag.start>>}
                          \cup {<<a, frag.start>> : a \in frag.accepts}
                          \cup {<<a, st>> : a \in frag.accepts},
                tr |-> frag.tr]

\* build(): the global NFA.  State 0 is global_start; rule number p
\* (0-based, as enumerate gives it) tags its accepting states with
\* [token_type, priority].
RECURSIVE GlobalNFA(_, _, _)
GlobalNFA(specs, p, nfa) ==
    IF p >= Len(specs) THEN nfa
    ELSE LET frag == Thompson(RegexParse(specs[p + 1][2]), nfa.next)
         IN GlobalNFA(specs, p + 1,
                [next |-> frag.next,
                 eps |-> nfa.eps \cup frag.eps \cup {<<0, frag.start>>},
                 tr |-> nfa.tr \cup frag.tr,
                 tag |-> [s \in (DOMAIN nfa.tag) \cup frag.accepts |->
                            IF s \in frag.accepts
                            THEN [token_type |-> specs[p + 1][1], priority |-> p]
                            ELSE nfa.tag[s]]])

EmptyNFA == [next |-> 1, eps |-> {}, tr |-> {}, tag |-> <<>>]

\* start_dfa = None
NoDFA == [start |-> {}, states |-> {}, alphabet |-> {}, trans |-> <<>>,
          info |-> <<>>, nfa |-> EmptyNFA]

-----------------------------------------------------------------------------
(* Subset construction *)

RECURSIVE epsilon_closure(_, _)
epsilon_closure(nfa, states) ==
    LET more == {e[2] : e \in {e \in nfa.eps : e[1] \in states}} \ states
    IN IF more = {} THEN states ELSE epsilon_closure(nfa, states \cup more)

move(nfa, states, symbol) ==
    {e[3] : e \in {e \in nfa.tr : e[1] \in states /\ e[2] = symbol}}

\* States reachable from the global start, and the alphabet collected on
\* the way (first loop of nfa_to_dfa)
RECURSIVE NfaReach(_, _)
NfaReach(nfa, seen) ==
    LET more == ({e[2] : e \in {e \in nfa.eps : e[1] \in seen}}
                 \cup {e[3] : e \in {e \in nfa.tr : e[1] \in seen}}) \ seen
    IN IF more = {} THEN seen ELSE NfaReach(nfa, seen \cup more)

NfaAlphabet(nfa) ==
    LET all_states == NfaReach(nfa, {0})
    IN {e[2] : e \in {e \in nfa.tr : e[1] \in all_states}}

\* get_dfa_state as a buggy variant would compute it: the accepting NFA
\* state with the LARGEST priority number wins
get_dfa_state_lastwins(nfa, key) ==
    LET acc == key \cap DOMAIN nfa.tag
    IN IF acc = {}
       THEN [is_accept |-> FALSE, token_type |-> None, priority |-> NoPriority]
       ELSE LET best == SetMax({nfa.tag[n].priority : n \in acc})
                n0 == CHOOSE n \in acc : nfa.tag[n].priority = best
            IN [is_accept |-> TRUE, token_type |-> nfa.tag[n0].token_type,
                priority |-> best]

\* get_dfa_state: accept information of the DFA state for the NFA subset key
get_dfa_state(nfa, key) ==
    LET acc == key \cap DOMAIN nfa.tag
    IN IF acc = {}
       THEN [is_accept |-> FALSE, token_type |-> None, priority |-> NoPriority]
       ELSE LET best == SetMin({nfa.tag[n].priority : n \in acc})
                n0 == CHOOSE n \in acc : nfa.tag[n].priority = best
            IN [is_accept |-> TRUE, token_type |-> nfa.tag[n0].token_type,
                priority |-> best]

\* Worklist loop of nfa_to_dfa: the DFA states are the reachable subsets
RECURSIVE DfaStates(_, _, _, _)
DfaStates(nfa, alpha, done, work) ==
    IF work = {} THEN done
    ELSE LET targets == {epsilon_closure(nfa, move(nfa, d, sym)) :
                            d \in work, sym \in alpha} \ {{}}
             fresh == targets \ (done \cup work)
         IN DfaStates(nfa, alpha, done \cup work, fresh)

nfa_to_dfa(nfa) ==
    LET alpha == NfaAlphabet(nfa)
        start_closure == epsilon_closure(nfa, {0})
        states == DfaStates(nfa, alpha, {}, {start_closure})
    IN [start |-> start_closure,
        states |-> states,
        alphabet |-> alpha,
        trans |-> [d \in states |->
                     [sym \in {c \in alpha : move(nfa, d, c) # {}} |->
                        epsilon_closure(nfa, move(nfa, d, sym))]],
        info |-> [d \in states |-> get_dfa_state(nfa, d)],
        nfa |-> nfa]

-----------------------------------------------------------------------------
(* LexerGenerator: the operations *)

LexInit ==
    /\ token_specs = <<>>
    /\ start_dfa = NoDFA
    /\ alphabet = {}
    /\ compiled_patterns = <<>>
    /\ text = <<>>
    /\ pos = 0 /\ line = 1 /\ column = 1
    /\ tokens = <<>>
    /\ lex_pc = "idle"
    /\ lex_error = NoError

\* add_token_rule(token_type, regex_pattern)
add_token_rule(rule) ==
    /\ lex_pc # "scan"
    /\ Len(token_specs) < MaxRules
    /\ token_specs' = Append(token_specs, rule)
    /\ UNCHANGED parservars
    /\ UNCHANGED <<start_dfa, alphabet, compiled_patterns, text, pos, line,
                   column, tokens, lex_pc, lex_error>>

\* a build() that compiles the rules at every call
build_again ==
    /\ lex_pc # "scan"
    /\ token_specs # <<>>
    /\ LET dfa == nfa_to_dfa(GlobalNFA(token_specs, 0, EmptyNFA))
       IN /\ start_dfa' = dfa
          /\ alphabet' = dfa.alphabet
          /\ compiled_patterns' = token_specs
    /\ UNCHANGED parservars
    /\ UNCHANGED <<token_specs, text, pos, line, column, tokens, lex_pc, lex_error>>

\* build(): raises when there is no rule; returns at once when a DFA exists
build ==
    /\ lex_pc # "scan"
    /\ token_specs # <<>>
    /\ IF start_dfa # NoDFA
       THEN UNCHANGED <<start_dfa, alphabet, compiled_patterns>>
       ELSE LET dfa == nfa_to_dfa(GlobalNFA(token_specs, 0, EmptyNFA))
            IN /\ start_dfa' = dfa
               /\ alphabet' = dfa.alphabet
               /\ compiled_patterns' = token_specs
    /\ UNCHANGED parservars
    /\ UNCHANGED <<token_specs, text, pos, line, column, tokens, lex_pc, lex_error>>

\* tokenize(text): entry; raises RuntimeError when no DFA was built.  A
\* later call of one behaviour is given the text of the first one again.
tokenize(t) ==
    /\ lex_pc = "idle" \/ (lex_pc \in {"done", "error"} /\ t = text)
    /\ start_dfa # NoDFA
    /\ text' = t
    /\ pos' = 0 /\ line' = 1 /\ column' = 1
    /\ tokens' = <<>>
    /\ lex_pc' = "scan"
    /\ lex_error' = NoError
    /\ UNCHANGED parservars
    /\ UNCHANGED <<token_specs, start_dfa, alphabet, compiled_patterns>>

EOFToken == [type |-> "EOF", value |-> <<>>, line |-> line, column |-> column]

\* a whitespace branch that counts a newline as a column
SkipWhitespace_counting_newline ==
    /\ lex_pc = "scan"
    /\ pos < Len(text)
    /\ IsSpace(text[pos + 1])
    /\ line' = (IF text[pos + 1] = "\n" THEN line + 1 ELSE line)
    /\ column' = column + 1
    /\ pos' = pos + 1
    /\ UNCHANGED parservars
    /\ UNCHANGED <<token_specs, start_dfa, alphabet, compiled_patterns, text,
                   tokens, lex_pc, lex_error>>

\* while pos < n: whitespace branch
SkipWhitespace ==
    /\ lex_pc = "scan"
    /\ pos < Len(text)
    /\ IsSpace(text[pos + 1])
    /\ IF text[pos + 1] = "\n"
       THEN line' = line + 1 /\ column' = 1
       ELSE line' = line /\ column' = column + 1
    /\ pos' = pos + 1
    /\ UNCHANGED parservars
    /\ UNCHANGED <<token_specs, start_dfa, alphabet, compiled_patterns, text,
                   tokens, lex_pc, lex_error>>

\* text.find('\n', pos): 0-based index of the first newline at or after
\* pos, or -1
FindNewline(t, p) ==
    LET hits == {i \in p..(Len(t) - 1) : t[i + 1] = "\n"}
    IN IF hits = {} THEN -1 ELSE SetMin(hits)

\* a scanner without comments
AtComment_never == FALSE

AtComment ==
    /\ pos + 1 < Len(text)
    /\ text[pos + 1] = "/"
    /\ text[pos + 2] = "/"

\* while pos < n: line-comment branch (break when the comment is unterminated;
\* the EOF token is then appended at once)
SkipComment ==
    /\ lex_pc = "scan"
    /\ pos < Len(text)
    /\ ~IsSpace(text[pos + 1])
    /\ AtComment
    /\ LET end == FindNewline(text, pos)
       IN IF end = -1
          THEN /\ tokens' = Append(tokens, EOFToken)
               /\ lex_pc' = "done"
               /\ pos' = pos
          ELSE /\ pos' = end
               /\ UNCHANGED <<tokens, lex_pc>>
    /\ UNCHANGED parservars
    /\ UNCHANGED <<token_specs, start_dfa, alphabet, compiled_patterns, text,
                   line, column, lex_error>>

\* A scanner that stops at the first accepting state (shortest match)
RECURSIVE LongestMatch_first(_, _, _, _, _, _)
LongestMatch_first(dfa, t, state, current_pos, last_state, last_pos) ==
    IF last_state # NoState \/ current_pos >= Len(t)
          \/ t[current_pos + 1] \notin DOMAIN dfa.trans[state]
    THEN [state |-> last_state, pos |-> last_pos]
    ELSE LET nxt == dfa.trans[state][t[current_pos + 1]]
         IN IF dfa.info[nxt].is_accept
            THEN LongestMatch_first(dfa, t, nxt, current_pos + 1, nxt, current_pos + 1)
            ELSE LongestMatch_first(dfa, t, nxt, current_pos + 1, last_state, last_pos)

\* The inner while loop of tokenize: follow the DFA as far as it goes,
\* remembering the last accepting state and the position after it
RECURSIVE LongestMatch(_, _, _, _, _, _)
LongestMatch(dfa, t, state, current_pos, last_state, last_pos) ==
    IF current_pos >= Len(t) \/ t[current_pos + 1] \notin DOMAIN dfa.trans[state]
    THEN [state |-> last_state, pos |-> last_pos]
    ELSE LET nxt == dfa.trans[state][t[current_pos + 1]]
         IN IF dfa.info[nxt].is_accept
            THEN LongestMatch(dfa, t, nxt, current_pos + 1, nxt, current_pos + 1)
            ELSE LongestMatch(dfa, t, nxt, current_pos + 1, last_state, last_pos)

AtToken ==
    /\ lex_pc = "scan"
    /\ pos < Len(text)
    /\ ~IsSpace(text[pos + 1])
    /\ ~AtComment

CountNewlines(s) == Cardinality({i \in 1..Len(s) : s[i] = "\n"})

\* lexeme.rfind('\n'), 0-based
RFindNewline(s) == SetMax({i \in 0..(Len(s) - 1) : s[i + 1] = "\n"})

\* Token type written into the token: token_type or 'UNKNOWN'
TokenTypeOf(info) == IF info.token_type = None THEN "UNKNOWN" ELSE info.token_type

\* a token branch that takes the start state of the DFA for a match when
\* it accepts
EmitToken_accepting_start ==
    /\ AtToken
    /\ LET m == LongestMatch(start_dfa, text, start_dfa.start, pos,
                             IF start_dfa.info[start_dfa.start].is_accept
                             THEN start_dfa.start ELSE NoState, pos)
       IN /\ m.state # NoState
          /\ LET lexeme == SubSeq(text, pos + 1, m.pos)
             IN /\ tokens' = Append(tokens,
                       [type |-> TokenTypeOf(start_dfa.info[m.state]),
                        value |-> lexeme, line |-> line, column |-> column])
                /\ pos' = m.pos
                /\ IF CountNewlines(lexeme) > 0
                   THEN /\ line' = line + CountNewlines(lexeme)
                        /\ column' = Len(lexeme) - RFindNewline(lexeme)
                   ELSE /\ line' = line
                        /\ column' = column + Len(lexeme)
    /\ UNCHANGED parservars
    /\ UNCHANGED <<token_specs, start_dfa, alphabet, compiled_patterns, text,
                   lex_pc, lex_error>>

\* while pos < n: a token is matched and appended
EmitToken ==
    /\ AtToken
    /\ LET m == LongestMatch(start_dfa, text, start_dfa.start, pos, NoState, pos)
       IN /\ m.state # NoState
          /\ LET lexeme == SubSeq(text, pos + 1, m.pos)
             IN /\ tokens' = Append(tokens,
                       [type |-> TokenTypeOf(start_dfa.info[m.state]),
                        value |-> lexeme, line |-> line, column |-> column])
                /\ pos' = m.pos
                /\ IF CountNewlines(lexeme) > 0
                   THEN /\ line' = line + CountNewlines(lexeme)
                        /\ column' = Len(lexeme) - RFindNewline(lexeme)
                   ELSE /\ line' = line
                        /\ column' = column + Len(lexeme)
    /\ UNCHANGED parservars
    /\ UNCHANGED <<token_specs, start_dfa, alphabet, compiled_patterns, text,
                   lex_pc, lex_error>>

\* a lexical error that cites the offset in the text as the column
LexicalError_offset ==
    /\ AtToken
    /\ LET m == LongestMatch(start_dfa, text, start_dfa.start, pos, NoState, pos)
       IN m.state = NoState
    /\ lex_error' = [line |-> line, column |-> pos + 1, ch |-> text[pos + 1]]
    /\ lex_pc' = "error"
    /\ tokens' = <<>>
    /\ UNCHANGED parservars
    /\ UNCHANGED <<token_specs, start_dfa, alphabet, compiled_patterns, text,
                   pos, line, column>>

\* while pos < n: no rule matches; SyntaxError, nothing is returned
LexicalError ==
    /\ AtToken
    /\ LET m == LongestMatch(start_dfa, text, start_dfa.start, pos, NoState, pos)
       IN m.state = NoState
    /\ lex_error' = [line |-> line, column |-> column, ch |-> text[pos + 1]]
    /\ lex_pc' = "error"
    /\ tokens' = <<>>
    /\ UNCHANGED parservars
    /\ UNCHANGED <<token_specs, start_dfa, alphabet, compiled_patterns, text,
                   pos, line, column>>

\* pos = n: the loop ends, the EOF token is appended and the list returned
FinishTokenize ==
    /\ lex_pc = "scan"
    /\ pos >= Len(text)
    /\ tokens' = Append(tokens, EOFToken)
    /\ lex_pc' = "done"
    /\ UNCHANGED parservars
    /\ UNCHANGED <<token_specs, start_dfa, alphabet, compiled_patterns, text,
                   pos, line, column, lex_error>>

LexNext ==
    \/ \E rule \in RuleCatalog : add_token_rule(rule)
    \/ build
    \/ \E t \in Texts : tokenize(t)
    \/ SkipWhitespace
    \/ SkipComment
    \/ EmitToken
    \/ LexicalError
    \/ FinishTokenize

-----------------------------------------------------------------------------
(* Python strings.  A str is a sequence of one-character strings, so that  *)
(* slicing, concatenation, startswith/endswith and the order sorted() uses *)
(* are computed character by character.                                    *)

\* the printable ASCII characters, in code-point order from chr(32); the
\* grave accent, which no symbol of the model contains, is held by its name
Ascii ==
    <<" ", "!", "\"", "#", "$", "%", "&", "'", "(", ")", "*", "+",
      ",", "-", ".", "/", "0", "1", "2", "3", "4", "5", "6", "7",
      "8", "9", ":", ";", "<", "=", ">", "?", "@", "A", "B", "C",
      "D", "E", "F", "G", "H", "I", "J", "K", "L", "M", "N", "O",
      "P", "Q", "R", "S", "T", "U", "V", "W", "X", "Y", "Z", "[",
      "\\", "]", "^", "_", "chr(96)", "a", "b", "c", "d", "e", "f", "g",
      "h", "i", "j", "k", "l", "m", "n", "o", "p", "q", "r", "s",
      "t", "u", "v", "w", "x", "y", "z", "{", "|", "}", "~">>

\* ord(c)
ord(c) == 31 + (CHOOSE i \in 1..Len(Ascii) : Ascii[i] = c)

\* s < t on str
RECURSIVE StrLess(_, _)
StrLess(s, t) ==
    IF s = <<>> THEN t # <<>>
    ELSE IF t = <<>> THEN FALSE
    ELSE IF s[1] = t[1] THEN StrLess(Tail(s), Tail(t))
    ELSE ord(s[1]) < ord(t[1])

\* p < q on lists of str
RECURSIVE ListLess(_, _)
ListLess(p, q) ==
    IF p = <<>> THEN q # <<>>
    ELSE IF q = <<>> THEN FALSE
    ELSE IF p[1] = q[1] THEN ListLess(Tail(p), Tail(q))
    ELSE StrLess(p[1], q[1])

\* sorted(S) for a set of str
RECURSIVE SortedStrs(_)
SortedStrs(S) ==
    IF S = {} THEN <<>>
    ELSE LET m == CHOOSE x \in S : \A y \in S \ {x} : StrLess(x, y)
         IN <<m>> \o SortedStrs(S \ {m})

RemoveAt(s, i) == SubSeq(s, 1, i - 1) \o SubSeq(s, i + 1, Len(s))

\* sorted(productions) for a list of lists of str
RECURSIVE SortedProds(_)
SortedProds(ps) ==
    IF ps = <<>> THEN <<>>
    ELSE LET i == CHOOSE k \in 1..Len(ps) :
                      \A j \in 1..Len(ps) : ~ListLess(ps[j], ps[k])
         IN <<ps[i]>> \o SortedProds(RemoveAt(ps, i))

\* str(n) for n >= 0
RECURSIVE IntToStr(_)
IntToStr(n) ==
    IF n < 10 THEN <<Ascii[17 + n]>>
    ELSE IntToStr(n \div 10) \o <<Ascii[17 + (n % 10)]>>

\* sep.join(parts)
RECURSIVE Join(_, _)
Join(sep, parts) ==
    IF parts = <<>> THEN <<>>
    ELSE IF Len(parts) = 1 THEN parts[1]
    ELSE parts[1] \o sep \o Join(sep, Tail(parts))

\* the concatenation of a list of lists
RECURSIVE Flatten(_)
Flatten(ss) == IF ss = <<>> THEN <<>> ELSE ss[1] \o Flatten(Tail(ss))

\* None where the attribute holds a str: a value no str is equal to
NoneVal == <<"None">>

\* truth value of a str-or-None
Truthy(v) == v # NoneVal /\ v # <<>>

\* how an f-string prints a str-or-None
Text(v) == IF v = NoneVal THEN <<"N", "o", "n", "e">> ELSE v

\* dictionaries are functions; d.get(k, default) and d[k] = v
Get(d, k, default) == IF k \in DOMAIN d THEN d[k] ELSE default

Put(d, k, v) == [x \in (DOMAIN d) \cup {k} |-> IF x = k THEN v ELSE d[x]]

EmptyDict == <<>>

-----------------------------------------------------------------------------
(* Grammar symbols *)

EPSILON == <<"E", "P", "S", "I", "L", "O", "N">>      \* self.epsilon_symbol
EOF == <<"E", "O", "F">>
TAIL == <<"_", "T", "A", "I", "L">>
LF_TAIL == <<"_", "L", "F", "_", "T", "A", "I", "L", "_">>

startswith_quote(symbol) == symbol # <<>> /\ symbol[1] = "'"

\* symbol.startswith("'") and symbol.endswith("'")
IsQuoted(symbol) ==
    symbol # <<>> /\ symbol[1] = "'" /\ symbol[Len(symbol)] = "'"

\* symbol[1:-1]
Strip(symbol) == SubSeq(symbol, 2, Len(symbol) - 1)

Quote(name) == <<"'">> \o name \o <<"'">>

-----------------------------------------------------------------------------
(* ParserGenerator: symbols of a grammar *)

AllSymbols(g) ==
    UNION {UNION {Range(g[nt][i]) : i \in 1..Len(g[nt])} : nt \in DOMAIN g}

\* _identify_symbols: the nonterminals are the keys; the terminals are the
\* quoted symbols without their quotes, and EOF
identify_symbols(g) ==
    [non_terminals |-> DOMAIN g,
     terminals |-> {Strip(s) : s \in {x \in AllSymbols(g) : IsQuoted(x)}}
                       \cup {EOF}]

\* _is_terminal
is_terminal(terms, symbol) == IsQuoted(symbol) \/ symbol \in terms

-----------------------------------------------------------------------------
(* ParserGenerator: elimination of left recursion *)

\* _eliminate_immediate_left_recursion(A): A -> A alpha | beta becomes
\* A -> beta A_TAIL, A_TAIL -> alpha A_TAIL | epsilon.  grammar[A_TAIL] is
\* assigned whatever it held before.
eliminate_immediate_left_recursion(g, nts, A) ==
    LET productions == g[A]
        IsRec(production) == production # <<>> /\ production[1] = A
        NotRec(production) == ~IsRec(production)
        recs == SelectSeq(productions, IsRec)
        alphas == [k \in 1..Len(recs) |-> Tail(recs[k])]
        betas == SelectSeq(productions, NotRec)
        A_tail == A \o TAIL
        new_A_tail_productions ==
            [k \in 1..Len(alphas) |-> Append(alphas[k], A_tail)] \o <<(<<>>)>>
        new_A_productions == [k \in 1..Len(betas) |-> Append(betas[k], A_tail)]
    IN IF alphas = <<>>
       THEN [grammar |-> g, non_terminals |-> nts]
       ELSE [grammar |-> Put(Put(g, A_tail, new_A_tail_productions),
                             A, new_A_productions),
             non_terminals |-> nts \cup {A_tail}]

\* _check_potential_indirect_recursion(start_sym, target_sym, visited): a
\* depth-first search along the first symbols of the productions; visited
\* is one set shared by all the recursive calls.  The result is
\* [found, visited].
RECURSIVE check_potential_indirect_recursion(_, _, _, _, _)
RECURSIVE CheckProductions(_, _, _, _, _, _)
check_potential_indirect_recursion(g, nts, start_sym, target_sym, visited) ==
    IF start_sym = target_sym THEN [found |-> TRUE, visited |-> visited]
    ELSE IF start_sym \in visited THEN [found |-> FALSE, visited |-> visited]
    ELSE CheckProductions(g, nts, Get(g, start_sym, <<>>), 1, target_sym,
                          visited \cup {start_sym})

CheckProductions(g, nts, prods, k, target_sym, visited) ==
    IF k > Len(prods) THEN [found |-> FALSE, visited |-> visited]
    ELSE IF prods[k] = <<>> \/ prods[k][1] \notin nts
         THEN CheckProductions(g, nts, prods, k + 1, target_sym, visited)
         ELSE LET r == check_potential_indirect_recursion(
                           g, nts, prods[k][1], target_sym, visited)
              IN IF r.found THEN r
                 ELSE CheckProductions(g, nts, prods, k + 1, target_sym,
                                       r.visited)

\* the body of "for j in range(i)" for one j: productions of Ai that start
\* with Aj are replaced by the productions of Aj followed by their rest, and
\* moved behind the productions that are kept
SubstituteInto(g, nts, Ai, Aj) ==
    IF ~check_potential_indirect_recursion(g, nts, Aj, Ai, {}).found
    THEN g
    ELSE IF Ai \notin DOMAIN g THEN g
    ELSE LET current_productions == g[Ai]
             StartsAj(production) == production # <<>> /\ production[1] = Aj
             Kept(production) == ~StartsAj(production)
             Aj_productions == Get(g, Aj, <<>>)
             new_productions_for_Ai ==
                 Flatten([k \in 1..Len(current_productions) |->
                     IF StartsAj(current_productions[k])
                     THEN [m \in 1..Len(Aj_productions) |->
                              Aj_productions[m] \o Tail(current_productions[k])]
                     ELSE <<>>])
         IN Put(g, Ai, SelectSeq(current_productions, Kept)
                           \o new_productions_for_Ai)

\* "for j in range(i)"; a grammar without rules has no nonterminal to take
RECURSIVE EliminateInner(_, _, _, _, _)
EliminateInner(g, nts, non_terminals_list, i, j) ==
    IF j >= i \/ g = EmptyDict THEN g
    ELSE EliminateInner(
             SubstituteInto(g, nts, non_terminals_list[i], non_terminals_list[j]),
             nts, non_terminals_list, i, j + 1)

\* "for i in range(len(non_terminals_list))": the substitutions for Ai, then
\* the elimination of its immediate left recursion
RECURSIVE EliminateOuter(_, _, _, _)
EliminateOuter(g, nts, non_terminals_list, i) ==
    IF i > Len(non_terminals_list) \/ g = EmptyDict THEN g
    ELSE LET g2 == EliminateInner(g, nts, non_terminals_list, i, 1)
             Ai == non_terminals_list[i]
             r == IF Ai \in DOMAIN g2
                  THEN eliminate_immediate_left_recursion(g2, nts, Ai)
                  ELSE [grammar |-> g2, non_terminals |-> nts]
         IN EliminateOuter(r.grammar, r.non_terminals, non_terminals_list, i + 1)

\* _eliminate_left_recursion: the nonterminals are taken in sorted order
eliminate_left_recursion(g, nts) == EliminateOuter(g, nts, SortedStrs(nts), 1)

-----------------------------------------------------------------------------
(* ParserGenerator: left factoring *)

RECURSIVE CommonPrefix(_, _)
CommonPrefix(p, q) ==
    IF p = <<>> \/ q = <<>> THEN <<>>
    ELSE IF p[1] = q[1] THEN <<p[1]>> \o CommonPrefix(Tail(p), Tail(q))
    ELSE <<>>

\* the index behind the group that starts at i: the following sorted
\* productions are taken while they begin with the same symbol
RECURSIVE GroupEnd(_, _, _)
GroupEnd(sorted_productions, i, j) ==
    IF /\ j <= Len(sorted_productions)
       /\ CommonPrefix(sorted_productions[i], sorted_productions[j]) # <<>>
       /\ sorted_productions[i][1] = sorted_productions[j][1]
    THEN GroupEnd(sorted_productions, i, j + 1)
    ELSE j

RECURSIVE Groups(_, _)
Groups(sorted_productions, i) ==
    IF i > Len(sorted_productions) THEN <<>>
    ELSE LET e == GroupEnd(sorted_productions, i, i + 1)
         IN <<SubSeq(sorted_productions, i, e - 1)>>
                \o Groups(sorted_productions, e)

\* the longest common prefix of all the productions of a group
GroupAlpha(group) ==
    LET min_len == SetMin({Len(group[k]) : k \in 1..Len(group)})
        agree == {n \in 0..min_len :
                     \A i_sym \in 1..n : \A k \in 2..Len(group) :
                         group[k][i_sym] = group[1][i_sym]}
    IN SubSeq(group[1], 1, SetMax(agree))

\* "for group in groups": acc is [prods, new_grammar, counter, to_check]
RECURSIVE FactorGroups(_, _, _, _)
FactorGroups(A, groups, k, acc) ==
    IF k > Len(groups) THEN acc
    ELSE LET group == groups[k]
             alpha == GroupAlpha(group)
             new_non_terminal == A \o LF_TAIL \o IntToStr(acc.counter)
             new_tail_productions ==
                 [m \in 1..Len(group) |->
                     SubSeq(group[m], Len(alpha) + 1, Len(group[m]))]
         IN IF Len(group) < 2 \/ alpha = <<>>
            THEN FactorGroups(A, groups, k + 1,
                              [acc EXCEPT !.prods = @ \o group])
            ELSE FactorGroups(A, groups, k + 1,
                     [prods |-> Append(acc.prods, Append(alpha, new_non_terminal)),
                      new_grammar |-> Put(acc.new_grammar, new_non_terminal,
                                          new_tail_productions),
                      counter |-> acc.counter + 1,
                      to_check |-> IF Len(new_tail_productions) > 1
                                   THEN acc.to_check \cup {new_non_terminal}
                                   ELSE acc.to_check])

\* one iteration of the while loop, for the nonterminal A that pop() gave
LeftFactoringStep(st, A) ==
    LET productions == Get(st.new_grammar, A, <<>>)
        acc == FactorGroups(A, Groups(SortedProds(productions), 1), 1,
                   [prods |-> <<>>, new_grammar |-> st.new_grammar,
                    counter |-> st.counter, to_check |-> st.to_check \ {A}])
    IN IF productions = <<>>
       THEN [st EXCEPT !.to_check = @ \ {A}, !.max_iterations = @ - 1]
       ELSE [new_grammar |-> Put(acc.new_grammar, A, acc.prods),
             counter |-> acc.counter,
             to_check |-> acc.to_check,
             max_iterations |-> st.max_iterations - 1]

\* the while loop: set.pop() gives an arbitrary element, so the loop has one
\* result for every order in which the nonterminals can be taken.  sts is
\* the set of the states the loop can be in after some number of rounds.
RECURSIVE LeftFactoringLoop(_)
LeftFactoringLoop(sts) ==
    LET done == {st \in sts : st.to_check = {} \/ st.max_iterations <= 0}
        running == sts \ done
        next == UNION {{LeftFactoringStep(st, A) : A \in st.to_check} :
                          st \in running}
    IN {st.new_grammar : st \in done}
           \cup (IF running = {} \/ Cardinality(next) = 0 THEN {}
                 ELSE LeftFactoringLoop(next))

\* _perform_left_factoring: the set of grammars it can leave
perform_left_factoring(g) ==
    LeftFactoringLoop({[new_grammar |-> g, counter |-> 0,
                        to_check |-> DOMAIN g,
                        max_iterations |-> 2 * Cardinality(DOMAIN g)]})

-----------------------------------------------------------------------------
(* ParserGenerator: FIRST, FOLLOW and SELECT sets.  The source iterates    *)
(* over the set of nonterminals in whatever order the set gives; each loop *)
(* runs until a whole pass changes nothing, and the passes here take the   *)
(* nonterminals in sorted order.  Without nonterminals the sets are empty  *)
(* and every step leaves them so.                                          *)

\* the token type a terminal symbol stands for
token_type_of(Y) == IF startswith_quote(Y) THEN Strip(Y) ELSE Y

\* "for Y in production" of _compute_first_sets, from position k, followed
\* by the addition of EPSILON
RECURSIVE FirstOfProduction(_, _, _, _, _)
FirstOfProduction(fs, terms, X, production, k) ==
    IF k > Len(production)
    THEN [fs EXCEPT ![X] = @ \cup {EPSILON}]
    ELSE LET Y == production[k]
         IN IF is_terminal(terms, Y)
            THEN [fs EXCEPT ![X] = @ \cup {token_type_of(Y)}]
            ELSE LET fs2 == [fs EXCEPT ![X] = @ \cup (Get(fs, Y, {}) \ {EPSILON})]
                 IN IF EPSILON \notin Get(fs2, Y, {})
                    THEN fs2
                    ELSE FirstOfProduction(fs2, terms, X, production, k + 1)

RECURSIVE FirstOfProductions(_, _, _, _, _)
FirstOfProductions(g, fs, terms, X, k) ==
    IF fs = EmptyDict \/ k > Len(g[X]) THEN fs
    ELSE FirstOfProductions(g, FirstOfProduction(fs, terms, X, g[X][k], 1),
                            terms, X, k + 1)

RECURSIVE FirstPass(_, _, _, _, _)
FirstPass(g, fs, terms, order, i) ==
    IF fs = EmptyDict \/ i > Len(order) THEN fs
    ELSE FirstPass(g, FirstOfProductions(g, fs, terms, order[i], 1),
                   terms, order, i + 1)

RECURSIVE FirstLoop(_, _, _, _)
FirstLoop(g, fs, terms, order) ==
    LET fs2 == FirstPass(g, fs, terms, order, 1)
    IN IF fs2 = fs THEN fs ELSE FirstLoop(g, fs2, terms, order)

\* _compute_first_sets
compute_first_sets(g, nts, terms) ==
    FirstLoop(g, [nt \in nts |-> {}], terms, SortedStrs(nts))

\* _get_first_set_for_sequence
RECURSIVE get_first_set_for_sequence(_, _, _, _)
get_first_set_for_sequence(fs, terms, sequence, first_set) ==
    IF sequence = <<>> THEN first_set \cup {EPSILON}
    ELSE LET Y == sequence[1]
         IN IF is_terminal(terms, Y)
            THEN first_set \cup {token_type_of(Y)}
            ELSE IF EPSILON \notin Get(fs, Y, {})
                 THEN first_set \cup (Get(fs, Y, {}) \ {EPSILON})
                 ELSE get_first_set_for_sequence(
                          fs, terms, Tail(sequence),
                          first_set \cup (Get(fs, Y, {}) \ {EPSILON}))

\* _sequence_can_derive_epsilon
sequence_can_derive_epsilon(fs, terms, sequence) ==
    \A k \in 1..Len(sequence) :
        /\ ~is_terminal(terms, sequence[k])
        /\ EPSILON \in Get(fs, sequence[k], {})

\* "for i, B in enumerate(production)" of _compute_follow_sets, from i
RECURSIVE FollowOfProduction(_, _, _, _, _, _, _)
FollowOfProduction(fol, fs, nts, terms, A, production, i) ==
    IF fol = EmptyDict \/ i > Len(production) THEN fol
    ELSE LET B == production[i]
             beta == SubSeq(production, i + 1, Len(production))
             first_beta == get_first_set_for_sequence(fs, terms, beta, {})
             fol2 ==
                 IF B \notin nts THEN fol
                 ELSE IF beta # <<>>
                 THEN LET f1 == [fol EXCEPT ![B] = @ \cup (first_beta \ {EPSILON})]
                      IN IF sequence_can_derive_epsilon(fs, terms, beta)
                         THEN [f1 EXCEPT ![B] = @ \cup Get(f1, A, {})]
                         ELSE f1
                 ELSE [fol EXCEPT ![B] = @ \cup Get(fol, A, {})]
         IN FollowOfProduction(fol2, fs, nts, terms, A, production, i + 1)

RECURSIVE FollowOfProductions(_, _, _, _, _, _, _)
FollowOfProductions(g, fol, fs, nts, terms, A, k) ==
    IF fol = EmptyDict \/ k > Len(g[A]) THEN fol
    ELSE FollowOfProductions(
             g, FollowOfProduction(fol, fs, nts, terms, A, g[A][k], 1),
             fs, nts, terms, A, k + 1)

RECURSIVE FollowPass(_, _, _, _, _, _, _)
FollowPass(g, fol, fs, nts, terms, order, i) ==
    IF fol = EmptyDict \/ i > Len(order) THEN fol
    ELSE FollowPass(g, FollowOfProductions(g, fol, fs, nts, terms, order[i], 1),
                    fs, nts, terms, order, i + 1)

RECURSIVE FollowLoop(_, _, _, _, _, _)
FollowLoop(g, fol, fs, nts, terms, order) ==
    LET fol2 == FollowPass(g, fol, fs, nts, terms, order, 1)
    IN IF fol2 = fol THEN fol ELSE FollowLoop(g, fol2, fs, nts, terms, order)

\* _compute_follow_sets with "while changed" left after its first pass
compute_follow_sets_single_pass(g, fs, nts, terms, ss) ==
    FollowPass(g, [nt \in nts |-> IF ss # <<>> /\ nt = ss THEN {EOF} ELSE {}],
               fs, nts, terms, SortedStrs(nts), 1)

\* _compute_follow_sets, for a start symbol that is empty or a nonterminal
compute_follow_sets(g, fs, nts, terms, ss) ==
    FollowLoop(g, [nt \in nts |-> IF ss # <<>> /\ nt = ss THEN {EOF} ELSE {}],
               fs, nts, terms, SortedStrs(nts))

\* _compute_select_set
compute_select_set(fs, fol, terms, non_terminal, production) ==
    LET first_alpha == get_first_set_for_sequence(fs, terms, production, {})
    IN IF EPSILON \notin first_alpha
       THEN first_alpha
       ELSE (first_alpha \ {EPSILON}) \cup Get(fol, non_terminal, {})

\* _precompute_select_sets
precompute_select_sets(g, fs, fol, nts, terms) ==
    [nt \in nts |->
        [k \in 1..Len(g[nt]) |-> compute_select_set(fs, fol, terms, nt, g[nt][k])]]

-----------------------------------------------------------------------------
(* ParserGenerator: the LL(1) check and build_analysis_sets *)

\* the exceptions build_analysis_sets can raise, and no exception
NoBuildError ==
    [kind |-> "none", nonterminal |-> <<>>, production1 |-> <<>>,
     production2 |-> <<>>, conflict_tokens |-> {}]

KeyErrorOf(key) ==
    [kind |-> "KeyError", nonterminal |-> key, production1 |-> <<>>,
     production2 |-> <<>>, conflict_tokens |-> {}]

\* how the diagnostic prints a production
ProductionText(production) ==
    IF production = <<>> THEN EPSILON ELSE Join(<<" ">>, production)

\* the pairs of neighbouring alternatives of A whose SELECT sets intersect
ConflictPairs_adjacent(g, sel, A) ==
    {ij \in (1..Len(sel[A])) \X (1..Len(sel[A])) :
        ij[2] = ij[1] + 1 /\ sel[A][ij[1]] \cap sel[A][ij[2]] # {}}

\* the pairs i < j of alternatives of A whose SELECT sets intersect
ConflictPairs(g, sel, A) ==
    {ij \in (1..Len(sel[A])) \X (1..Len(sel[A])) :
        ij[1] < ij[2] /\ sel[A][ij[1]] \cap sel[A][ij[2]] # {}}

\* _check_ll1_conflicts for the nonterminal A: the first pair in loop order
ConflictOf(g, sel, A) ==
    LET pairs == ConflictPairs(g, sel, A)
        i == SetMin({ij[1] : ij \in pairs})
        j == SetMin({ij[2] : ij \in {x \in pairs : x[1] = i}})
    IN [kind |-> "ParseError", nonterminal |-> A,
        production1 |-> ProductionText(g[A][i]),
        production2 |-> ProductionText(g[A][j]),
        conflict_tokens |-> sel[A][i] \cap sel[A][j]]

\* the exceptions _check_ll1_conflicts can raise: the loop over the set of
\* nonterminals stops at the first one that has a conflict
check_ll1_conflicts(g, sel, nts) ==
    {ConflictOf(g, sel, A) :
        A \in {X \in nts : Len(g[X]) > 1 /\ ConflictPairs(g, sel, X) # {}}}

\* the analysis of a transformed grammar g: FIRST, then FOLLOW (KeyError
\* when the start symbol is no nonterminal), SELECT, and the LL(1) check
AnalysisResults(g, ss) ==
    LET ids == identify_symbols(g)
        nts == ids.non_terminals
        terms == ids.terminals
        fs == compute_first_sets(g, nts, terms)
        fol == compute_follow_sets(g, fs, nts, terms, ss)
        sel == precompute_select_sets(g, fs, fol, nts, terms)
        errors == check_ll1_conflicts(g, sel, nts)
        base == [grammar |-> g, non_terminals |-> nts, terminals |-> terms,
                 first_sets |-> fs, follow_sets |-> fol, select_sets |-> sel,
                 error |-> NoBuildError]
    IN IF ss # <<>> /\ ss \notin nts
       THEN {[base EXCEPT !.follow_sets = [nt \in nts |-> {}],
                          !.select_sets = EmptyDict,
                          !.error = KeyErrorOf(ss)]}
       ELSE IF errors = {} THEN {base}
       ELSE {[base EXCEPT !.error = e] : e \in errors}

\* build_analysis_sets on the grammar g with start symbol ss: everything it
\* can leave in the ParserGenerator
BuildAnalysisResults(g, ss) ==
    LET g1 == eliminate_left_recursion(g, identify_symbols(g).non_terminals)
    IN UNION {AnalysisResults(g2, ss) : g2 \in perform_left_factoring(g1)}

-----------------------------------------------------------------------------
(* Tokens, AST nodes and the token types the translation scheme names *)

T_ID == <<"I", "D">>
T_NUM == <<"N", "U", "M">>
T_LPAREN == <<"L", "P", "A", "R", "E", "N">>
T_RPAREN == <<"R", "P", "A", "R", "E", "N">>
T_SEMI == <<"S", "E", "M", "I">>
T_ASSIGN == <<"A", "S", "S", "I", "G", "N">>
T_COMMA == <<"C", "O", "M", "M", "A">>
T_LBRACE == <<"L", "B", "R", "A", "C", "E">>
T_RBRACE == <<"R", "B", "R", "A", "C", "E">>
T_BEGIN == <<"B", "E", "G", "I", "N">>
T_END == <<"E", "N", "D">>
T_VAR == <<"V", "A", "R">>
T_CONST == <<"C", "O", "N", "S", "T">>
T_PROCEDURE == <<"P", "R", "O", "C", "E", "D", "U", "R", "E">>
T_CALL == <<"C", "A", "L", "L">>
T_IF == <<"I", "F">>
T_WHILE == <<"W", "H", "I", "L", "E">>
T_READ == <<"R", "E", "A", "D">>
T_WRITE == <<"W", "R", "I", "T", "E">>
T_PRINT == <<"P", "R", "I", "N", "T">>
T_PLUS == <<"P", "L", "U", "S">>
T_MINUS == <<"M", "I", "N", "U", "S">>
T_MUL == <<"M", "U", "L">>
T_DIV == <<"D", "I", "V">>
T_LT == <<"L", "T">>
T_LE == <<"L", "E">>
T_GT == <<"G", "T">>
T_GE == <<"G", "E">>
T_EQ == <<"E", "Q">>
T_NE == <<"N", "E">>

\* the token types the translation helpers never take for an operator
NonOperatorTypes ==
    {T_ID, T_NUM, T_LPAREN, T_RPAREN, T_SEMI, T_ASSIGN, T_COMMA, T_LBRACE,
     T_RBRACE, T_BEGIN, T_END, T_VAR, T_CONST, T_PROCEDURE, T_CALL, T_IF,
     T_WHILE, T_READ, T_WRITE, T_PRINT}

\* Token(type, value, line, column)
Token(type, value, ln, col) ==
    [type |-> type, value |-> value, line |-> ln, column |-> col]

\* None where the attribute holds a Token
NoToken == Token(NoneVal, NoneVal, 0, 0)

\* ASTNode(name, children, token, synthesized_value)
ASTNode(name, children, token, synthesized_value) ==
    [name |-> name, children |-> children, token |-> token,
     synthesized_value |-> synthesized_value]

\* None where the attribute holds an ASTNode
NoNode == ASTNode(NoneVal, <<>>, NoToken, NoneVal)

-----------------------------------------------------------------------------
(* ParserGenerator: code generation state.  sdt is the record of           *)
(* code_buffer, temp_counter, label_counter, symbol_table, semantic_errors *)

enable_sdt == TRUE
enable_variable_check == TRUE

\* a reset that leaves the counters as they are
reset_code_generation_keeping_counters(sdt) ==
    [sdt EXCEPT !.code_buffer = <<>>, !.symbol_table = EmptyDict,
                !.semantic_errors = <<>>]

\* reset_code_generation, of the code generation attributes sdt
reset_code_generation(sdt) ==
    [sdt EXCEPT !.code_buffer = <<>>, !.temp_counter = 0, !.label_counter = 0,
                !.symbol_table = EmptyDict, !.semantic_errors = <<>>]

\* new_temp: [sdt, name]
new_temp(sdt) ==
    [sdt |-> [sdt EXCEPT !.temp_counter = @ + 1],
     name |-> <<"t">> \o IntToStr(sdt.temp_counter + 1)]

\* new_label: [sdt, name]
new_label(sdt) ==
    [sdt |-> [sdt EXCEPT !.label_counter = @ + 1],
     name |-> <<"L">> \o IntToStr(sdt.label_counter + 1)]

\* emit
emit(sdt, code) ==
    IF enable_sdt THEN [sdt EXCEPT !.code_buffer = Append(@, code)] ELSE sdt

\* the entry made in the symbol table for a variable
VarEntry == [type |-> "var"]

\* the lower case letter of every upper case letter
LowerCase ==
    [c \in {Ascii[k] : k \in 34..59} |-> Ascii[ord(c) + 1]]

\* str.lower()
lower(s) ==
    [i \in 1..Len(s) |-> IF s[i] \in DOMAIN LowerCase THEN LowerCase[s[i]]
                         ELSE s[i]]

\* min(insertions, deletions, substitutions)
Min3(a, b, c) == SetMin({a, b, c})

\* levenshtein_distance, the loop over the characters of s2: current_row is
\* extended by the entry of the j-th character
RECURSIVE LevenshteinRow(_, _, _, _, _)
LevenshteinRow(previous_row, c1, s2, j, current_row) ==
    IF j > Len(s2) THEN current_row
    ELSE LET insertions == previous_row[j + 1] + 1
             deletions == current_row[j] + 1
             substitutions == previous_row[j] + (IF c1 # s2[j] THEN 1 ELSE 0)
         IN LevenshteinRow(previous_row, c1, s2, j + 1,
                           Append(current_row,
                                  Min3(insertions, deletions, substitutions)))

\* levenshtein_distance, the loop over the characters of s1
RECURSIVE LevenshteinRows(_, _, _, _)
LevenshteinRows(s1, s2, i, previous_row) ==
    IF i > Len(s1) THEN previous_row[Len(previous_row)]
    ELSE LevenshteinRows(s1, s2, i + 1,
                         LevenshteinRow(previous_row, s1[i], s2, 1, <<i>>))

\* levenshtein_distance
levenshtein_distance(s1, s2) ==
    LET long == IF Len(s1) < Len(s2) THEN s2 ELSE s1
        short == IF Len(s1) < Len(s2) THEN s1 ELSE s2
    IN IF Len(short) = 0 THEN Len(long)
       ELSE LevenshteinRows(long, short, 1, [k \in 1..(Len(short) + 1) |-> k - 1])

\* the default of the parameter max_distance of find_similar_variables
max_distance == 2

\* find_similar_variables: the pairs (variable, distance) within
\* max_distance
find_similar_variables(undefined_var, defined_vars) ==
    {similar \in defined_vars \X (0..max_distance) :
        levenshtein_distance(lower(undefined_var), lower(similar[1]))
            = similar[2]}

\* suggest_variable_fix: the names it can return.  The pairs are sorted by
\* distance only and the sort is stable, so which of the nearest names comes
\* first is left to the order in which the set is iterated.
suggest_variable_fix(undefined_var, defined_vars) ==
    LET First(suggestions) ==
            IF suggestions = {} THEN {NoneVal}
            ELSE {p[1] : p \in {x \in suggestions :
                                   \A y \in suggestions : x[2] <= y[2]}}
    IN First(find_similar_variables(undefined_var, defined_vars))

\* the semantic error recorded for an undefined name: of the message, the
\* name, the position, the suggested name ("[建议]") and the listed names
\* ("[提示]") are kept.  suggestions holds the names the message can carry.
SemanticError(var_name, token, suggestions, defined_vars) ==
    [var_name |-> var_name,
     line |-> IF token = NoToken THEN 0 ELSE token.line,
     column |-> IF token = NoToken THEN 0 ELSE token.column,
     suggestion |-> suggestions,
     hint |-> IF suggestions = {NoneVal} THEN SortedStrs(defined_vars)
              ELSE <<>>]

\* check_variable_defined: an undefined name adds a semantic error
check_variable_defined(sdt, var_name, token) ==
    IF ~enable_variable_check \/ var_name \in DOMAIN sdt.symbol_table
    THEN sdt
    ELSE [sdt EXCEPT !.semantic_errors =
             Append(@, SemanticError(var_name, token,
                           suggest_variable_fix(var_name,
                                                DOMAIN sdt.symbol_table),
                           DOMAIN sdt.symbol_table))]

\* the error lists a run can leave: each message carries one of the names it
\* can carry
Messages(errors) ==
    {[i \in 1..Len(errors) |-> [errors[i] EXCEPT !.suggestion = pick[i]]] :
        pick \in {f \in [1..Len(errors) -> UNION {e.suggestion : e \in Range(errors)}] :
                     \A i \in 1..Len(errors) : f[i] \in errors[i].suggestion}}

\* f"{temp} = {left_val} {op} {right_val}"
BinaryInstruction(temp, left_val, op, right_val) ==
    temp \o <<" ", "=", " ">> \o Text(left_val) \o <<" ">> \o Text(op) \o <<" ">>
         \o Text(right_val)

\* _apply_binary_op: [value, sdt]
apply_binary_op(sdt, op_type, left_val, right_val) ==
    IF ~Truthy(left_val) \/ ~Truthy(right_val)
    THEN [value |-> NoneVal, sdt |-> sdt]
    ELSE LET t == new_temp(sdt)
         IN [value |-> t.name,
             sdt |-> emit(t.sdt, BinaryInstruction(t.name, left_val, op_type,
                                                   right_val))]

\* the first child of node is a token of an additive operator
IsAddOperation(node) ==
    /\ Len(node.children) >= 2
    /\ node.children[1].token # NoToken
    /\ node.children[1].token.type \notin NonOperatorTypes
    /\ node.children[1].token.type \in {T_PLUS, T_MINUS}

\* _process_add_op: [value, sdt]
RECURSIVE process_add_op(_, _, _)
process_add_op(add_op_node, left_val, sdt) ==
    LET children == add_op_node.children
        op == children[1].synthesized_value
        right_val == children[2].synthesized_value
        t == new_temp(sdt)
        sdt2 == emit(t.sdt, BinaryInstruction(t.name, left_val, op, right_val))
    IN IF IsAddOperation(add_op_node) /\ Truthy(op) /\ Truthy(right_val)
       THEN IF /\ Len(children) > 2
               /\ Len(children[3].children) = 1
               /\ IsAddOperation(children[3].children[1])
            THEN process_add_op(children[3].children[1], t.name, sdt2)
            ELSE [value |-> t.name, sdt |-> sdt2]
       ELSE [value |-> left_val, sdt |-> sdt]

\* _process_expr_tail: [value, sdt]
RECURSIVE process_expr_tail(_, _, _)
process_expr_tail(tail_node, left_val, sdt) ==
    LET children == tail_node.children
        op == children[1].synthesized_value
        right_val == children[2].synthesized_value
        t == new_temp(sdt)
        sdt2 == emit(t.sdt, BinaryInstruction(t.name, left_val, op, right_val))
    IN IF children = <<>> THEN [value |-> left_val, sdt |-> sdt]
       \* format 1: Tail -> AddOp
       ELSE IF Len(children) = 1 /\ IsAddOperation(children[1])
       THEN process_add_op(children[1], left_val, sdt)
       \* format 2: Tail -> operator operand Tail
       ELSE IF IsAddOperation(tail_node) /\ Truthy(op) /\ Truthy(right_val)
       THEN IF Len(children) > 2 /\ children[3].children # <<>>
            THEN process_expr_tail(children[3], t.name, sdt2)
            ELSE [value |-> t.name, sdt |-> sdt2]
       ELSE [value |-> left_val, sdt |-> sdt]

\* collect_ids_from_tail: the symbol table after the names of the tail
RECURSIVE collect_ids_from_tail(_, _)
collect_ids_from_tail(tail_node, table) ==
    LET children == tail_node.children
        comma_node == children[1]
        id_node == children[2]
        table2 == IF /\ id_node.token # NoToken
                     /\ id_node.token.type = T_ID
                     /\ Truthy(id_node.synthesized_value)
                  THEN Put(table, id_node.synthesized_value, VarEntry)
                  ELSE table
    IN IF Len(children) >= 2 /\ comma_node.token # NoToken
                             /\ comma_node.token.type = T_COMMA
       THEN IF Len(children) > 2
            THEN collect_ids_from_tail(children[3], table2)
            ELSE table2
       ELSE table
-----------------------------------------------------------------------------
(* ParserGenerator: the translation scheme applied when a production has   *)
(* been recognised.  The result is [value, sdt]: the synthesized value of  *)
(* the node and the code generation state.                                 *)

Q_ID == Quote(T_ID)
Q_ASSIGN == Quote(T_ASSIGN)
Q_LPAREN == Quote(T_LPAREN)
Q_RPAREN == Quote(T_RPAREN)
Q_READ == Quote(T_READ)
Q_WHILE == Quote(T_WHILE)
Q_IF == Quote(T_IF)

\* _is_keyword_by_structure(production, 0)
is_keyword_by_structure(production) ==
    /\ Len(production) >= 4
    /\ startswith_quote(production[1])
    /\ production[2] = Q_LPAREN
    /\ ~startswith_quote(production[3])
    /\ production[4] = Q_RPAREN

\* _is_binary_operator_by_structure(production, 1)
is_binary_operator_by_structure(production) ==
    /\ Len(production) > 2
    /\ ~startswith_quote(production[1])
    /\ startswith_quote(production[2])
    /\ ~startswith_quote(production[3])

\* a target that is left out of the symbol table
EnterTarget_skipped(sdt, var_name) == sdt

\* self.symbol_table[var_name] = {'type': 'var'}
EnterTarget(sdt, var_name) ==
    [sdt EXCEPT !.symbol_table = Put(@, var_name, VarEntry)]

\* an assignment that enters the target without the check
TranslateAssignment_unchecked(sdt, red, children) ==
    LET var_name == children[1].synthesized_value
        expr_val == children[3].synthesized_value
        Assign(sdt2) ==
            IF Truthy(expr_val)
            THEN emit(sdt2, var_name \o <<" ", "=", " ">> \o expr_val)
            ELSE sdt2
    IN IF ~Truthy(var_name) THEN sdt
       ELSE Assign([sdt EXCEPT !.symbol_table = Put(@, var_name, VarEntry)])

\* the assignment statement 'ID' 'ASSIGN' Expr ...
TranslateAssignment(sdt, red, children) ==
    LET var_name == children[1].synthesized_value
        expr_val == children[3].synthesized_value
        known == var_name \in DOMAIN sdt.symbol_table
        Define(sdt1) ==
            IF known THEN sdt1 ELSE EnterTarget(sdt1, var_name)
        Assign(sdt2) ==
            IF Truthy(expr_val)
            THEN emit(sdt2, var_name \o <<" ", "=", " ">> \o expr_val)
            ELSE sdt2
    IN IF ~Truthy(var_name) THEN sdt
       ELSE Assign(Define(IF ~known /\ red
                          THEN check_variable_defined(sdt, var_name,
                                                      children[1].token)
                          ELSE sdt))

\* the output statement keyword 'LPAREN' Expr 'RPAREN' ...
TranslateWrite(sdt, production, children) ==
    LET expr_val == children[3].synthesized_value
    IN IF is_keyword_by_structure(production) /\ Truthy(expr_val)
       THEN emit(emit(sdt, <<"p", "a", "r", "a", "m", " ">> \o expr_val), <<"c", "a", "l", "l", " ", "w", "r", "i", "t", "e", ",", " ", "1">>)
       ELSE sdt

\* the input statement 'READ' 'ID' ...
TranslateRead(sdt, children) ==
    LET var_name == children[2].synthesized_value
        t == new_temp(sdt)
    IN IF Truthy(var_name)
       THEN emit(emit(t.sdt, t.name \o <<" ", "=", " ", "c", "a", "l", "l", " ", "r", "e", "a", "d", ",", " ", "0">>),
                 var_name \o <<" ", "=", " ">> \o t.name)
       ELSE sdt

\* the test of a condition: temp = not bool_val; if temp goto exit_label
EmitNegatedTest(sdt, bool_val, exit_label) ==
    LET t == new_temp(sdt)
    IN IF Truthy(bool_val)
       THEN emit(emit(t.sdt, t.name \o <<" ", "=", " ", "n", "o", "t", " ">> \o bool_val),
                 <<"i", "f", " ">> \o t.name \o <<" ", "g", "o", "t", "o", " ">> \o exit_label)
       ELSE sdt

\* the loop 'WHILE' 'LPAREN' Condition 'RPAREN' Stmt
TranslateWhile(sdt, children) ==
    LET l1 == new_label(sdt)
        l2 == new_label(l1.sdt)
        loop_label == l1.name
        exit_label == l2.name
        s1 == emit(l2.sdt, loop_label \o <<":">>)
        s2 == EmitNegatedTest(s1, children[3].synthesized_value, exit_label)
    IN emit(emit(s2, <<"g", "o", "t", "o", " ">> \o loop_label), exit_label \o <<":">>)

\* the conditional 'IF' 'LPAREN' Condition 'RPAREN' Stmt
TranslateIf(sdt, children) ==
    LET l == new_label(sdt)
        s1 == EmitNegatedTest(l.sdt, children[3].synthesized_value, l.name)
    IN emit(s1, l.name \o <<":">>)

\* the binary operation Expr operator Expr ...
TranslateBinary(sdt, production, children) ==
    LET e1 == children[1].synthesized_value
        op_val == children[2].synthesized_value
        e2 == children[3].synthesized_value
    IN IF /\ is_binary_operator_by_structure(production)
          /\ children[2].token # NoToken
          /\ Truthy(e1) /\ Truthy(op_val) /\ Truthy(e2)
       THEN apply_binary_op(sdt, op_val, e1, e2)
       ELSE [value |-> NoneVal, sdt |-> sdt]

\* the declaration list 'ID' Tail
TranslateDeclaration(sdt, children) ==
    LET table1 == IF /\ children[1].token # NoToken
                     /\ children[1].token.type = T_ID
                     /\ Truthy(children[1].synthesized_value)
                  THEN Put(sdt.symbol_table, children[1].synthesized_value,
                           VarEntry)
                  ELSE sdt.symbol_table
        table2 == IF Len(children) > 1 /\ children[2].children # <<>>
                  THEN collect_ids_from_tail(children[2], table1)
                  ELSE table1
    IN [sdt EXCEPT !.symbol_table = table2]

\* _apply_translation_scheme: the if/elif chain, in its order.  The
\* branches of the source that repeat the test of an earlier branch (the
\* second two-nonterminal branch, and the one-symbol branches for 'NUM',
\* 'ID' and the relational operators) can never be taken.
apply_translation_scheme(sdt, red, production, children) ==
    LET n == Len(production)
        Stay(s) == [value |-> NoneVal, sdt |-> s]
    IN IF n = 1
       THEN [value |-> children[1].synthesized_value, sdt |-> sdt]
       ELSE IF /\ n = 2 /\ ~startswith_quote(production[1])
               /\ ~startswith_quote(production[2])
       THEN process_expr_tail(children[2], children[1].synthesized_value, sdt)
       ELSE IF n = 3 /\ production[1] = Q_LPAREN /\ production[3] = Q_RPAREN
       THEN [value |-> children[2].synthesized_value, sdt |-> sdt]
       ELSE IF n >= 3 /\ production[1] = Q_ID /\ production[2] = Q_ASSIGN
       THEN Stay(TranslateAssignment(sdt, red, children))
       ELSE IF /\ n >= 4 /\ startswith_quote(production[1])
               /\ production[2] = Q_LPAREN /\ ~startswith_quote(production[3])
       THEN Stay(TranslateWrite(sdt, production, children))
       ELSE IF n >= 2 /\ production[1] = Q_READ /\ production[2] = Q_ID
       THEN Stay(TranslateRead(sdt, children))
       ELSE IF n >= 5 /\ production[1] = Q_WHILE /\ production[2] = Q_LPAREN
       THEN Stay(TranslateWhile(sdt, children))
       ELSE IF n >= 5 /\ production[1] = Q_IF /\ production[2] = Q_LPAREN
       THEN Stay(TranslateIf(sdt, children))
       ELSE IF /\ n >= 3 /\ ~startswith_quote(production[1])
               /\ startswith_quote(production[2])
               /\ ~startswith_quote(production[3])
       THEN TranslateBinary(sdt, production, children)
       ELSE IF n >= 2 /\ production[1] = Q_ID /\ ~startswith_quote(production[2])
       THEN Stay(TranslateDeclaration(sdt, children))
       ELSE Stay(sdt)
-----------------------------------------------------------------------------
(* ParserGenerator: the predictive parser *)

\* a bound on the depth of the recursion of parse_symbol; a deeper
\* recursion ends the call with RecursionError
MaxDepth == 24

\* no exception, and the exceptions of the parser
NoException ==
    [kind |-> "none", message |-> "", line |-> 0, column |-> 0,
     expected |-> {}, found_type |-> NoneVal, found_value |-> NoneVal]

ParseError(message, expected, token) ==
    [kind |-> "ParseError", message |-> message, line |-> token.line,
     column |-> token.column, expected |-> expected,
     found_type |-> token.type, found_value |-> token.value]

RecursionError == [NoException EXCEPT !.kind = "RecursionError"]

\* current_token
current_token(toks, position) ==
    IF position < Len(toks) THEN toks[position + 1] ELSE toks[Len(toks)]

\* the outcome of parse_symbol and of the loop over the symbols of a
\* production: the node (or the children), the position, the code
\* generation state and the exception raised, if any
Outcome(node, position, sdt, exc) ==
    [node |-> node, pos |-> position, sdt |-> sdt, exc |-> exc]

\* match, with the value of the token made the synthesized value
match(toks, position, sdt, expected_type) ==
    LET current == current_token(toks, position)
    IN IF current.type = expected_type
       THEN Outcome(ASTNode(current.type, <<>>, current, current.value),
                    position + 1, sdt, NoException)
       ELSE Outcome(NoNode, position, sdt,
                    ParseError("Expected token type", {expected_type}, current))

\* the tokens the "Expected one of" diagnostic lists
ExpectedOf(ctx, symbol) ==
    LET first == Get(ctx.first_sets, symbol, {})
    IN IF EPSILON \in first
       THEN (first \ {EPSILON}) \cup Get(ctx.follow_sets, symbol, {})
       ELSE first

\* parse_symbol; ctx holds the grammar, the analysis sets, the tokens and
\* requires_explicit_declaration
RECURSIVE parse_symbol(_, _, _, _, _)
RECURSIVE ParseProduction(_, _, _, _, _, _, _)
parse_symbol(ctx, symbol, position, sdt, depth) ==
    IF depth > MaxDepth THEN Outcome(NoNode, position, sdt, RecursionError)
    ELSE IF IsQuoted(symbol)
    THEN match(ctx.tokens, position, sdt, Strip(symbol))
    ELSE IF symbol \notin DOMAIN ctx.grammar
    THEN Outcome(NoNode, position, sdt,
                 ParseError("Unknown symbol reference in grammar", {symbol},
                            NoToken))
    ELSE LET current_token_type == current_token(ctx.tokens, position).type
             productions == ctx.grammar[symbol]
             select_sets_for_symbol == ctx.select_sets[symbol]
             found == {i \in 1..Len(select_sets_for_symbol) :
                          current_token_type \in select_sets_for_symbol[i]}
             found_production == productions[SetMin(found)]
             Translated(r, t) ==
                 Outcome(ASTNode(symbol, r.node, NoToken, t.value), r.pos,
                         t.sdt, NoException)
             Parsed(r) ==
                 IF r.exc # NoException
                 THEN Outcome(NoNode, r.pos, r.sdt, r.exc)
                 ELSE IF enable_sdt
                 THEN Translated(r, apply_translation_scheme(
                                        r.sdt, ctx.red, found_production,
                                        r.node))
                 ELSE Outcome(ASTNode(symbol, r.node, NoToken, NoneVal), r.pos,
                              r.sdt, NoException)
         IN IF found = {}
            THEN Outcome(NoNode, position, sdt,
                         ParseError("Expected one of", ExpectedOf(ctx, symbol),
                                    NoToken))
            ELSE IF found_production = <<>>
            THEN Outcome(ASTNode(symbol, <<>>, NoToken, NoneVal), position,
                         sdt, NoException)
            ELSE Parsed(ParseProduction(ctx, found_production, 1, <<>>,
                                        position, sdt, depth))

\* "for sym in found_production": the children parsed so far are in node
ParseProduction(ctx, production, k, children, position, sdt, depth) ==
    IF k > Len(production)
    THEN Outcome(children, position, sdt, NoException)
    ELSE LET Rest(r) ==
                 IF r.exc # NoException THEN r
                 ELSE ParseProduction(ctx, production, k + 1,
                                      Append(children, r.node), r.pos, r.sdt,
                                      depth)
         IN Rest(parse_symbol(ctx, production[k], position, sdt, depth + 1))

\* the body of parse once the analysis sets are there: the code generation
\* state is reset, the start symbol is parsed, and EOF must be current
ParseTokens(ctx, ss, sdt) ==
    LET AtEnd(r) ==
            IF r.exc # NoException THEN r
            ELSE IF current_token(ctx.tokens, r.pos).type # EOF
            THEN Outcome(NoNode, r.pos, r.sdt,
                         ParseError("Unexpected trailing tokens", {}, NoToken))
            ELSE r
    IN AtEnd(parse_symbol(ctx, ss, 0, reset_code_generation(sdt), 1))
-----------------------------------------------------------------------------
(* ParserGenerator, create_parser_from_spec, generate_compiler_code: the   *)
(* operations                                                              *)

\* what parse returned or raised; nothing before the first call
NoResult == [outcome |-> "none", ast |-> NoNode, error |-> NoException]

\* nothing returned or raised by GeneratedCompiler.compile yet
NoCompilation == [outcome |-> "none", code |-> <<>>, error |-> NoException]

\* no generated compiler.  A generated compiler holds the grammar, the
\* start symbol and the FIRST and FOLLOW sets written into its parser, the
\* attributes of that parser, and what its last compile returned or raised
NoCompiler ==
    [generated |-> FALSE, grammar |-> EmptyDict, start_symbol |-> <<>>,
     first_sets |-> EmptyDict, follow_sets |-> EmptyDict,
     error |-> NoBuildError,
     requires_explicit_declaration |-> FALSE,
     tokens |-> <<>>, pos |-> 0,
     code_buffer |-> <<>>, temp_counter |-> 0, label_counter |-> 0,
     symbol_table |-> EmptyDict, semantic_errors |-> <<>>,
     compiles |-> 0, exited |-> FALSE, result |-> NoCompilation]

\* no output file written
NoFile == NoneVal

\* ParserGenerator.__init__
ParserInit ==
    /\ grammar = EmptyDict
    /\ start_symbol = <<>>
    /\ non_terminals = {} /\ terminals = {}
    /\ first_sets = EmptyDict /\ follow_sets = EmptyDict
    /\ select_sets = EmptyDict
    /\ analysis_sets_built = FALSE
    /\ p_tokens = <<>> /\ p_pos = 0
    /\ code_buffer = <<>> /\ temp_counter = 0 /\ label_counter = 0
    /\ symbol_table = EmptyDict /\ semantic_errors = <<>>
    /\ requires_explicit_declaration = FALSE
    /\ pg_pc = "new"
    /\ build_error = NoBuildError
    /\ parse_result = NoResult
    /\ compiler = NoCompiler
    /\ output_file = NoFile

\* the grammar after add_production has been called for every production
\* of the dictionary: a key without productions is never added
LoadedGrammar(rules) ==
    [nt \in {k \in DOMAIN rules : rules[k] # <<>>} |-> rules[nt]]

\* create_parser_from_spec(grammar, start, metadata)
create_parser_from_spec(require_explicit_declaration) ==
    /\ pg_pc = "new"
    /\ compiler = NoCompiler
    /\ start_symbol' = start
    /\ grammar' = LoadedGrammar(grammar_rules)
    /\ requires_explicit_declaration' = require_explicit_declaration
    /\ pg_pc' = "loaded"
    /\ UNCHANGED <<lexvars, inputvars, non_terminals, terminals, first_sets,
                   follow_sets, select_sets, analysis_sets_built, p_tokens,
                   p_pos, sdtvars, build_error, parse_result, compiler,
                   output_file>>

\* the analysis the ParserGenerator holds
CurrentAnalysis ==
    [grammar |-> grammar, non_terminals |-> non_terminals,
     terminals |-> terminals, first_sets |-> first_sets,
     follow_sets |-> follow_sets, select_sets |-> select_sets,
     error |-> NoBuildError]

\* what a run of build_analysis_sets leaves in the ParserGenerator:
\* analysis_sets_built is set by the last statement only
SetAnalysis(b) ==
    /\ grammar' = b.grammar
    /\ non_terminals' = b.non_terminals
    /\ terminals' = b.terminals
    /\ first_sets' = b.first_sets
    /\ follow_sets' = b.follow_sets
    /\ select_sets' = b.select_sets
    /\ analysis_sets_built' = (b.error = NoBuildError)
    /\ build_error' = b.error

\* build_analysis_sets(), called on the loaded grammar
build_analysis_sets ==
    /\ pg_pc = "loaded"
    /\ \E b \in BuildAnalysisResults(grammar, start_symbol) :
          /\ SetAnalysis(b)
          /\ pg_pc' = IF b.error = NoBuildError THEN "built" ELSE "failed"
    /\ UNCHANGED <<lexvars, inputvars, start_symbol, p_tokens, p_pos, sdtvars,
                   requires_explicit_declaration, parse_result, compiler,
                   output_file>>

\* the semantic errors of the parser, each with the one name its message
\* carries, as the list the next parse appends to
Recorded(errors) ==
    [i \in 1..Len(errors) |-> [errors[i] EXCEPT !.suggestion = {@}]]

\* the code generation attributes the ParserGenerator holds
CurrentAttributes ==
    [code_buffer |-> code_buffer, temp_counter |-> temp_counter,
     label_counter |-> label_counter, symbol_table |-> symbol_table,
     semantic_errors |-> Recorded(semantic_errors)]

\* what a run r of the parser on toks leaves in the ParserGenerator
SetParsed(toks, r) ==
    /\ pg_pc' = "parsed"
    /\ p_tokens' = toks
    /\ p_pos' = r.pos
    /\ code_buffer' = r.sdt.code_buffer
    /\ temp_counter' = r.sdt.temp_counter
    /\ label_counter' = r.sdt.label_counter
    /\ symbol_table' = r.sdt.symbol_table
    /\ semantic_errors' \in Messages(r.sdt.semantic_errors)
    /\ parse_result' = [outcome |-> IF r.exc = NoException THEN "ast"
                                    ELSE r.exc.kind,
                        ast |-> r.node, error |-> r.exc]

\* parse(tokens), for the token lists of inputs: the analysis sets are
\* built first when they are not there, and an exception of that build
\* ends the call
parse(inputs) ==
    /\ pg_pc \in {"loaded", "built", "parsed"}
    /\ \E b \in (IF analysis_sets_built THEN {CurrentAnalysis}
                 ELSE BuildAnalysisResults(grammar, start_symbol)) :
          /\ SetAnalysis(b)
          /\ IF b.error # NoBuildError
             THEN /\ pg_pc' = "failed"
                  /\ parse_result' = [outcome |-> b.error.kind, ast |-> NoNode,
                                      error |-> NoException]
                  /\ UNCHANGED <<p_tokens, p_pos, sdtvars>>
             ELSE \E toks \in inputs :
                     SetParsed(toks,
                               ParseTokens(
                                   [grammar |-> b.grammar,
                                    select_sets |-> b.select_sets,
                                    first_sets |-> b.first_sets,
                                    follow_sets |-> b.follow_sets,
                                    tokens |-> toks,
                                    red |-> requires_explicit_declaration],
                                   start_symbol, CurrentAttributes))
    /\ UNCHANGED <<lexvars, inputvars, start_symbol,
                   requires_explicit_declaration, compiler, output_file>>

\* generate_compiler_code(lexer_code, grammar_rules, start_symbol,
\* metadata): a ParserGenerator of its own is loaded and built; an
\* exception of the build leaves the function, and no parser code is
\* generated
generate_compiler_code(require_explicit) ==
    /\ pg_pc = "new"
    /\ compiler = NoCompiler
    /\ \E b \in BuildAnalysisResults(LoadedGrammar(grammar_rules), start) :
          compiler' = IF b.error = NoBuildError
                      THEN [NoCompiler EXCEPT
                               !.generated = TRUE, !.grammar = b.grammar,
                               !.start_symbol = start,
                               !.first_sets = b.first_sets,
                               !.follow_sets = b.follow_sets,
                               !.requires_explicit_declaration =
                                   require_explicit]
                      ELSE [NoCompiler EXCEPT !.error = b.error]
    /\ UNCHANGED <<lexvars, inputvars, pgvars, output_file>>

-----------------------------------------------------------------------------
(* generate_parser_code: the GeneratedParser class of the generated        *)
(* compiler.  Its new_temp, new_label, emit and _apply_binary_op have the  *)
(* text of the methods of ParserGenerator and are modelled by the same     *)
(* operators; sdt is the record of its code generation attributes.         *)

\* sorted(productions, key=lambda x: len(x), reverse=True): a stable sort,
\* so productions of one length keep their order
RECURSIVE LongestFirst(_, _)
LongestFirst(productions, n) ==
    IF n < 0 THEN <<>>
    ELSE SelectSeq(productions, LAMBDA p : Len(p) = n)
             \o LongestFirst(productions, n - 1)

\* the grammar written into GeneratedParser.__init__
GeneratedGrammar(g) ==
    [nt \in DOMAIN g |->
        LongestFirst(g[nt], SetMax({0} \cup {Len(p) : p \in Range(g[nt])}))]

\* GeneratedParser.reset_code_generation: semantic_errors is not among the
\* attributes it resets
GeneratedParser_reset_code_generation(sdt) ==
    [sdt EXCEPT !.code_buffer = <<>>, !.temp_counter = 0,
                !.label_counter = 0, !.symbol_table = EmptyDict]

\* sum(1 for a, b in zip(var_name, defined_var) if a != b)
Differences(s1, s2) == Cardinality({i \in 1..Len(s1) : s1[i] # s2[i]})

\* GeneratedParser.check_variable_defined: the name suggested is one of the
\* defined names of the same length that differ in one character, the
\* first the iteration of the set meets
GeneratedParser_check_variable_defined(sdt, var_name, token) ==
    LET defined_vars == DOMAIN sdt.symbol_table
        near == {defined_var \in defined_vars :
                    /\ Len(var_name) = Len(defined_var)
                    /\ Differences(var_name, defined_var) = 1}
    IN IF ~enable_variable_check \/ var_name \in defined_vars
       THEN sdt
       ELSE [sdt EXCEPT !.semantic_errors =
                Append(@, SemanticError(var_name, token,
                              IF near = {} THEN {NoneVal} ELSE near,
                              defined_vars))]

\* GeneratedParser._handle_tail: [value, sdt]
RECURSIVE GeneratedParser_handle_tail(_, _, _)
GeneratedParser_handle_tail(tail_node, left_val, sdt) ==
    LET children == tail_node.children
        group == children[1].children
        op_val == group[1].synthesized_value
        right_val == group[2].synthesized_value
        op == children[1].synthesized_value
        right == children[2].synthesized_value
        t == new_temp(sdt)
        sdt2 == emit(t.sdt, BinaryInstruction(t.name, left_val, op, right))
    IN IF children = <<>> THEN [value |-> left_val, sdt |-> sdt]
       \* format 1: one child that holds an operator and an operand
       ELSE IF /\ Len(children) = 1 /\ Len(group) >= 2
               /\ group[1].token # NoToken
               /\ Truthy(op_val) /\ Truthy(right_val)
       THEN apply_binary_op(sdt, op_val, left_val, right_val)
       \* format 2: operator operand tail
       ELSE IF /\ children[1].token # NoToken /\ Len(children) >= 2
               /\ Truthy(op) /\ Truthy(right)
       THEN IF Len(children) > 2
            THEN GeneratedParser_handle_tail(children[3], t.name, sdt2)
            ELSE [value |-> t.name, sdt |-> sdt2]
       ELSE [value |-> left_val, sdt |-> sdt]

\* the token types the output statement branch of _apply_sdt_rules leaves
\* out
NotOutputKeywords ==
    {T_PLUS, T_MINUS, T_MUL, T_DIV, T_LT, T_LE, T_GT, T_GE, T_EQ, T_NE,
     T_ASSIGN, T_ID, T_NUM, T_LPAREN, T_RPAREN, T_SEMI, T_COMMA}

\* _apply_sdt_rules, the assignment statement 'ID' 'ASSIGN' Expr ...
GeneratedParser_TranslateAssignment(sdt, red, children) ==
    LET var_name == children[1].synthesized_value
        expr_val == children[3].synthesized_value
        known == var_name \in DOMAIN sdt.symbol_table
        Define(sdt1) ==
            IF known THEN sdt1
            ELSE [sdt1 EXCEPT !.symbol_table = Put(@, var_name, VarEntry)]
        Assign(sdt2) ==
            IF Truthy(expr_val)
            THEN emit(sdt2, var_name \o <<" ", "=", " ">> \o expr_val)
            ELSE sdt2
    IN IF ~Truthy(var_name) THEN sdt
       ELSE Assign(Define(IF ~known /\ red
                          THEN GeneratedParser_check_variable_defined(
                                   sdt, var_name, children[1].token)
                          ELSE sdt))

\* _apply_sdt_rules, the output statement keyword 'LPAREN' Expr ...
GeneratedParser_TranslateWrite(sdt, production, children) ==
    LET expr_val == children[3].synthesized_value
    IN IF Strip(production[1]) \notin NotOutputKeywords /\ Truthy(expr_val)
       THEN emit(emit(sdt, <<"p", "a", "r", "a", "m", " ">> \o expr_val), <<"c", "a", "l", "l", " ", "w", "r", "i", "t", "e", ",", " ", "1">>)
       ELSE sdt

\* _apply_sdt_rules, the binary operation Expr operator Expr ...
GeneratedParser_TranslateBinary(sdt, production, children) ==
    LET e1 == children[1].synthesized_value
        op == children[2].synthesized_value
        e2 == children[3].synthesized_value
        t == new_temp(sdt)
    IN IF /\ children[2].token # NoToken
          /\ children[2].token.type = Strip(production[2])
          /\ Truthy(e1) /\ Truthy(op) /\ Truthy(e2)
       THEN [value |-> t.name,
             sdt |-> emit(t.sdt, BinaryInstruction(t.name, e1, op, e2))]
       ELSE [value |-> NoneVal, sdt |-> sdt]

\* GeneratedParser._apply_sdt_rules: the if/elif chain, in its order.  The
\* one-symbol branches for 'NUM', 'ID' and the relational operators repeat
\* the test of the first branch and can never be taken.
GeneratedParser_apply_sdt_rules(sdt, red, production, children) ==
    LET n == Len(production)
        Stay(s) == [value |-> NoneVal, sdt |-> s]
    IN IF n = 1
       THEN [value |-> children[1].synthesized_value, sdt |-> sdt]
       ELSE IF /\ n = 2 /\ ~startswith_quote(production[1])
               /\ ~startswith_quote(production[2])
       THEN GeneratedParser_handle_tail(children[2],
                                        children[1].synthesized_value, sdt)
       ELSE IF n = 3 /\ production[1] = Q_LPAREN /\ production[3] = Q_RPAREN
       THEN [value |-> children[2].synthesized_value, sdt |-> sdt]
       ELSE IF n >= 3 /\ production[1] = Q_ID /\ production[2] = Q_ASSIGN
       THEN Stay(GeneratedParser_TranslateAssignment(sdt, red, children))
       ELSE IF /\ n >= 4 /\ startswith_quote(production[1])
               /\ production[2] = Q_LPAREN /\ ~startswith_quote(production[3])
       THEN Stay(GeneratedParser_TranslateWrite(sdt, production, children))
       ELSE IF n >= 2 /\ production[1] = Q_READ /\ production[2] = Q_ID
       THEN Stay(TranslateRead(sdt, children))
       ELSE IF n >= 2 /\ production[1] = Q_ID /\ ~startswith_quote(production[2])
       THEN Stay(TranslateDeclaration(sdt, children))
       ELSE IF /\ n >= 3 /\ ~startswith_quote(production[1])
               /\ startswith_quote(production[2])
               /\ ~startswith_quote(production[3])
       THEN GeneratedParser_TranslateBinary(sdt, production, children)
       ELSE IF n >= 5 /\ production[1] = Q_WHILE /\ production[2] = Q_LPAREN
       THEN Stay(TranslateWhile(sdt, children))
       ELSE IF n >= 5 /\ production[1] = Q_IF /\ production[2] = Q_LPAREN
       THEN Stay(TranslateIf(sdt, children))
       ELSE Stay(sdt)

\* SyntaxError, as the generated lexer, the generated parser and
\* GeneratedCompiler.compile raise it
SyntaxError(message, expected, token) ==
    [kind |-> "SyntaxError", message |-> message, line |-> token.line,
     column |-> token.column, expected |-> expected,
     found_type |-> token.type, found_value |-> token.value]

\* GeneratedParser._is_terminal
GeneratedParser_is_terminal(symbol) == IsQuoted(symbol) \/ symbol = EOF

\* GeneratedParser._get_first_set_for_sequence
RECURSIVE GeneratedParser_get_first_set_for_sequence(_, _, _)
GeneratedParser_get_first_set_for_sequence(fs, sequence, first_set) ==
    IF sequence = <<>> THEN first_set \cup {EPSILON}
    ELSE LET Y == Head(sequence)
         IN IF GeneratedParser_is_terminal(Y)
            THEN first_set \cup {token_type_of(Y)}
            ELSE IF EPSILON \notin Get(fs, Y, {})
            THEN first_set \cup Get(fs, Y, {})
            ELSE GeneratedParser_get_first_set_for_sequence(
                     fs, Tail(sequence),
                     first_set \cup (Get(fs, Y, {}) \ {EPSILON}))

\* GeneratedParser.expect and advance: the position moves unless the
\* token is the last one
GeneratedParser_expect(toks, position, sdt, symbol) ==
    LET token == current_token(toks, position)
    IN IF token.type = Strip(symbol)
       THEN Outcome(ASTNode(symbol, <<>>, token, token.value),
                    IF position < Len(toks) - 1 THEN position + 1
                    ELSE position,
                    sdt, NoException)
       ELSE Outcome(NoNode, position, sdt,
                    SyntaxError("expect", {Strip(symbol)}, token))

\* the tokens the diagnostic of parse_symbol lists
GeneratedParser_ExpectedOf(ctx, symbol) ==
    {Strip(p[1]) : p \in {x \in Range(ctx.grammar[symbol]) :
                             x # <<>> /\ IsQuoted(x[1])}}
        \cup (IF EPSILON \in Get(ctx.first_sets, symbol, {})
              THEN Get(ctx.follow_sets, symbol, {}) ELSE {})

\* GeneratedParser.parse_symbol; ctx holds the grammar, the FIRST and
\* FOLLOW sets, the tokens and requires_explicit_declaration
RECURSIVE GeneratedParser_parse_symbol(_, _, _, _, _)
RECURSIVE GeneratedParser_ParseProduction(_, _, _, _, _, _, _)
GeneratedParser_parse_symbol(ctx, symbol, position, sdt, depth) ==
    IF depth > MaxDepth THEN Outcome(NoNode, position, sdt, RecursionError)
    ELSE IF IsQuoted(symbol)
    THEN GeneratedParser_expect(ctx.tokens, position, sdt, symbol)
    ELSE IF symbol \in DOMAIN ctx.grammar
    THEN LET current == current_token(ctx.tokens, position)
             productions == ctx.grammar[symbol]
             Predicted(production) ==
                 LET production_first_set ==
                         GeneratedParser_get_first_set_for_sequence(
                             ctx.first_sets, production, {})
                 IN \/ current.type \in production_first_set
                    \/ /\ EPSILON \in production_first_set
                       /\ current.type \in Get(ctx.follow_sets, symbol, {})
             found == {i \in 1..Len(productions) : Predicted(productions[i])}
             found_production == productions[SetMin(found)]
             Translated(r, t) ==
                 Outcome(ASTNode(symbol, r.node, NoToken, t.value), r.pos,
                         t.sdt, NoException)
             Parsed(r) ==
                 IF r.exc # NoException
                 THEN Outcome(NoNode, r.pos, r.sdt, r.exc)
                 ELSE Translated(r, GeneratedParser_apply_sdt_rules(
                                        r.sdt, ctx.red, found_production,
                                        r.node))
         IN IF found = {}
            THEN Outcome(NoNode, position, sdt,
                         SyntaxError("parse_symbol",
                                     GeneratedParser_ExpectedOf(ctx, symbol),
                                     current))
            ELSE IF found_production = <<>>
            THEN Outcome(ASTNode(symbol, <<>>, NoToken, NoneVal), position,
                         sdt, NoException)
            ELSE Parsed(GeneratedParser_ParseProduction(
                            ctx, found_production, 1, <<>>, position, sdt,
                            depth))
    ELSE LET token == current_token(ctx.tokens, position)
         IN IF token.type = symbol
            THEN Outcome(ASTNode(symbol, <<>>, token, NoneVal),
                         IF position < Len(ctx.tokens) - 1 THEN position + 1
                         ELSE position,
                         sdt, NoException)
            ELSE Outcome(NoNode, position, sdt,
                         SyntaxError("unknown symbol", {symbol}, NoToken))

\* "for sym in found_production": the children parsed so far are in node
GeneratedParser_ParseProduction(ctx, production, k, children, position, sdt,
                                depth) ==
    IF k > Len(production)
    THEN Outcome(children, position, sdt, NoException)
    ELSE LET Rest(r) ==
                 IF r.exc # NoException THEN r
                 ELSE GeneratedParser_ParseProduction(
                          ctx, production, k + 1, Append(children, r.node),
                          r.pos, r.sdt, depth)
         IN Rest(GeneratedParser_parse_symbol(ctx, production[k], position,
                                              sdt, depth + 1))

\* GeneratedParser.parse
GeneratedParser_parse(ctx, sdt) ==
    LET AtEnd(r) ==
            IF r.exc # NoException THEN r
            ELSE IF current_token(ctx.tokens, r.pos).type # EOF
            THEN Outcome(NoNode, r.pos, r.sdt,
                         SyntaxError("parse", {},
                                     current_token(ctx.tokens, r.pos)))
            ELSE r
    IN AtEnd(GeneratedParser_parse_symbol(
                 ctx, ctx.start_symbol, 0,
                 GeneratedParser_reset_code_generation(sdt), 1))
-----------------------------------------------------------------------------
(* generate_compiler_code: the GeneratedCompiler class of the generated    *)
(* compiler, and the compile command of the command line                   *)

\* a bound on the number of calls of compile on one GeneratedCompiler
MaxCompiles == 2

\* a source text, given by what GeneratedLexer.tokenize makes of it: the
\* tokens, or the SyntaxError of an unexpected character
Source(toks) == [error |-> NoException, tokens |-> toks]
LexicalErrorSource ==
    [error |-> SyntaxError("Lexical error", {}, NoToken), tokens |-> <<>>]

\* str.split('\n')
RECURSIVE SplitLines(_, _)
SplitLines(s, line_so_far) ==
    IF s = <<>> THEN <<line_so_far>>
    ELSE IF Head(s) = "\n" THEN <<line_so_far>> \o SplitLines(Tail(s), <<>>)
    ELSE SplitLines(Tail(s), Append(line_so_far, Head(s)))

\* get_generated_code: '\n'.join(self.code_buffer)
get_generated_code(buffer) == Join(<<"\n">>, buffer)

\* the code generation attributes of the GeneratedParser of compiler c
ParserAttributes(c) ==
    [code_buffer |-> c.code_buffer, temp_counter |-> c.temp_counter,
     label_counter |-> c.label_counter, symbol_table |-> c.symbol_table,
     semantic_errors |-> Recorded(c.semantic_errors)]

\* the GeneratedParser of compiler c with the tokens toks
ParserContext(c, toks) ==
    [grammar |-> GeneratedGrammar(c.grammar), start_symbol |-> c.start_symbol,
     first_sets |-> c.first_sets, follow_sets |-> c.follow_sets,
     tokens |-> toks, red |-> c.requires_explicit_declaration]

\* a check of the semantic errors that finds none
GeneratedParser_has_semantic_errors_never(errors) == FALSE

\* GeneratedParser.has_semantic_errors, for the list of semantic errors
GeneratedParser_has_semantic_errors(errors) == Len(errors) > 0

\* GeneratedCompiler.compile(source_code): the compilers the call can leave,
\* with what it returned or raised in result
GeneratedCompiler_compile(c, source) ==
    LET Lines(code_str) ==
            IF code_str # <<>> THEN SplitLines(code_str, <<>>) ELSE <<>>
        Parsed(r, errors) ==
            [c EXCEPT !.tokens = source.tokens, !.pos = r.pos,
                      !.code_buffer = r.sdt.code_buffer,
                      !.temp_counter = r.sdt.temp_counter,
                      !.label_counter = r.sdt.label_counter,
                      !.symbol_table = r.sdt.symbol_table,
                      !.semantic_errors = errors,
                      !.compiles = @ + 1,
                      !.result =
                          IF r.exc # NoException
                          THEN [outcome |-> r.exc.kind, code |-> <<>>,
                                error |-> r.exc]
                          ELSE IF GeneratedParser_has_semantic_errors(errors)
                          THEN [outcome |-> "SyntaxError", code |-> <<>>,
                                error |-> SyntaxError("semantic errors", {},
                                                      NoToken)]
                          ELSE [outcome |-> "code",
                                code |-> Lines(get_generated_code(
                                                   r.sdt.code_buffer)),
                                error |-> NoException]]
        Compiled(r) ==
            {Parsed(r, errors) : errors \in Messages(r.sdt.semantic_errors)}
    IN IF source.error # NoException
       THEN {[c EXCEPT !.compiles = @ + 1,
                       !.result = [outcome |-> "SyntaxError", code |-> <<>>,
                                   error |-> source.error]]}
       ELSE Compiled(GeneratedParser_parse(ParserContext(c, source.tokens),
                                           ParserAttributes(c)))

\* compile(source_code) on the generated compiler, for the sources of inputs
compile(inputs) ==
    /\ compiler.generated
    /\ ~compiler.exited
    /\ compiler.compiles < MaxCompiles
    /\ \E source \in inputs :
          compiler' \in GeneratedCompiler_compile(compiler, source)
    /\ UNCHANGED <<lexvars, inputvars, pgvars, output_file>>

\* line.strip() is empty
IsBlank(ln) == \A i \in 1..Len(ln) : IsSpace(ln[i])

\* what compile_file writes: the lines that are not blank
WrittenLines(code_lines) ==
    Flatten([i \in 1..Len(SelectSeq(code_lines, LAMBDA l : ~IsBlank(l))) |->
                SelectSeq(code_lines, LAMBDA l : ~IsBlank(l))[i] \o <<"\n">>])

\* compile_file(input_file, output_file) on the generated compiler: the
\* file is opened for writing once compile has returned; an exception ends
\* the process with sys.exit(1)
compile_file(inputs) ==
    /\ compiler.generated
    /\ ~compiler.exited
    /\ compiler.compiles < MaxCompiles
    /\ \E source \in inputs :
          \E c \in GeneratedCompiler_compile(compiler, source) :
             IF c.result.outcome = "code"
             THEN /\ compiler' = c
                  /\ output_file' = WrittenLines(c.result.code)
             ELSE /\ compiler' = [c EXCEPT !.exited = TRUE]
                  /\ UNCHANGED output_file
    /\ UNCHANGED <<lexvars, inputvars, pgvars>>

\* what _cmd_compile leaves after the run r of the parser on toks: the
\* output is written when parse has returned
SetParsedAndWritten(toks, r) ==
    /\ SetParsed(toks, r)
    /\ output_file' = IF r.exc = NoException
                      THEN get_generated_code(r.sdt.code_buffer)
                      ELSE output_file

\* CompilerCLI._cmd_compile: the source is tokenized, a ParserGenerator is
\* made by create_parser_from_spec without metadata, the tokens are parsed
\* and the generated code is written; a lexical error, a ParseError or any
\* other exception ends the command with exit code 1 before the output is
\* opened.  The start symbol is the first key of the grammar rules.
cmd_compile(inputs) ==
    /\ pg_pc = "new"
    /\ compiler = NoCompiler
    /\ \E source \in inputs :
          IF source.error # NoException
          THEN /\ pg_pc' = "exited"
               /\ parse_result' = [outcome |-> "SyntaxError", ast |-> NoNode,
                                   error |-> source.error]
               /\ UNCHANGED <<grammar, start_symbol, non_terminals, terminals,
                              first_sets, follow_sets, select_sets,
                              analysis_sets_built, p_tokens, p_pos, sdtvars,
                              requires_explicit_declaration, build_error,
                              output_file>>
          ELSE /\ start_symbol' = start
               /\ requires_explicit_declaration' = FALSE
               /\ \E b \in BuildAnalysisResults(LoadedGrammar(grammar_rules),
                                                start) :
                     /\ SetAnalysis(b)
                     /\ IF b.error # NoBuildError
                        THEN /\ pg_pc' = "failed"
                             /\ parse_result' = [outcome |-> b.error.kind,
                                                 ast |-> NoNode,
                                                 error |-> NoException]
                             /\ UNCHANGED <<p_tokens, p_pos, sdtvars,
                                            output_file>>
                        ELSE SetParsedAndWritten(
                                 source.tokens,
                                 ParseTokens([grammar |-> b.grammar,
                                              select_sets |-> b.select_sets,
                                              first_sets |-> b.first_sets,
                                              follow_sets |-> b.follow_sets,
                                              tokens |-> source.tokens,
                                              red |-> FALSE],
                                             start, CurrentAttributes))
    /\ UNCHANGED <<lexvars, inputvars, compiler>>

-----------------------------------------------------------------------------
(* The grammars and token lists of GrammarSpec *)

MaxProds == 4
MaxTokens == 3

sA == <<"A">>
sB == <<"B">>
sA_TAIL == sA \o TAIL
ta == Quote(<<"a">>)
tb == Quote(<<"b">>)

\* the productions a grammar is made of, as <<nonterminal, production>>
ProductionPool ==
    << <<sA, <<sA, ta>>>>, <<sA, <<sA>>>>, <<sA, <<ta>>>>, <<sA, <<ta, ta>>>>,
       <<sA, <<ta, ta, ta>>>>, <<sA, <<ta, ta, ta, ta>>>>, <<sA, <<tb>>>>,
       <<sA, <<sB, ta>>>>, <<sA, <<sA_TAIL>>>>,
       <<sB, <<sA, tb>>>>, <<sB, <<>>>>,
       <<sA_TAIL, <<tb>>>>, <<sA_TAIL, <<tb, sA>>>> >>

\* the productions of nt among those of the pool chosen by I, in pool order
RECURSIVE ChosenProductions(_, _, _)
ChosenProductions(I, nt, i) ==
    IF i > Len(ProductionPool) THEN <<>>
    ELSE (IF i \in I /\ ProductionPool[i][1] = nt
          THEN <<ProductionPool[i][2]>> ELSE <<>>)
             \o ChosenProductions(I, nt, i + 1)

GrammarOf(I) ==
    [nt \in {ProductionPool[i][1] : i \in I} |-> ChosenProductions(I, nt, 1)]

GrammarPool ==
    {GrammarOf(I) : I \in {J \in SUBSET (1..Len(ProductionPool)) :
                              J # {} /\ Cardinality(J) <= MaxProds}}

StartSymbols == {sA, sA_TAIL}

\* a token list: one token for each type, its value the type, then EOF
TokensOf(types) ==
    [i \in 1..(Len(types) + 1) |->
        IF i <= Len(types) THEN Token(types[i], types[i], 1, i)
        ELSE Token(EOF, <<>>, 1, i)]

TokenLists == {TokensOf(types) : types \in SeqsUpTo({<<"a">>, <<"b">>}, MaxTokens)}

GrammarInit ==
    /\ LexInit
    /\ ParserInit
    /\ grammar_rules \in GrammarPool
    /\ start \in StartSymbols

GrammarNext ==
    \/ create_parser_from_spec(FALSE)
    \/ build_analysis_sets
    \/ parse(TokenLists)
    \/ generate_compiler_code(FALSE)

GrammarSpec == GrammarInit /\ [][GrammarNext]_vars

-----------------------------------------------------------------------------
(* Reference definitions for the properties of the grammar pipeline *)

\* the token types of a token list, without the closing EOF token
InputTypes(toks) == [i \in 1..(Len(toks) - 1) |-> toks[i].type]

\* concatenations of a string of L1 and a string of L2, of length <= n
ConcatLangs(L1, L2, n) ==
    {w \in {u \o v : u \in L1, v \in L2} : Len(w) <= n}

\* the strings of token types a symbol derives, when the nonterminals
\* derive the strings of L: a quoted symbol is the token type it quotes
SymbolLang(L, s) == IF IsQuoted(s) THEN {<<Strip(s)>>} ELSE Get(L, s, {})

RECURSIVE SequenceLang(_, _, _)
SequenceLang(L, production, n) ==
    IF production = <<>> THEN {<<>>}
    ELSE ConcatLangs(SymbolLang(L, production[1]),
                     SequenceLang(L, Tail(production), n), n)

RECURSIVE LanguageFix(_, _, _)
LanguageFix(g, L, n) ==
    LET L2 == [nt \in DOMAIN g |->
                  UNION {SequenceLang(L, g[nt][i], n) : i \in 1..Len(g[nt])}]
    IN IF L2 = L THEN L ELSE LanguageFix(g, L2, n)

\* the sentences of length <= n of the grammar g with start symbol ss
Sentences(g, ss, n) == Get(LanguageFix(g, [nt \in DOMAIN g |-> {}], n), ss, {})

\* the first symbols of the productions of X
FirstSymbolsOf(g, X) ==
    {g[X][i][1] : i \in {k \in 1..Len(Get(g, X, <<>>)) : g[X][k] # <<>>}}

\* the symbols reached from the symbols of S by following the first symbol
\* of a production any number of times
RECURSIVE FirstSymbolClosure(_, _)
FirstSymbolClosure(g, S) ==
    LET S2 == S \cup UNION {FirstSymbolsOf(g, X) : X \in S}
    IN IF S2 = S THEN S ELSE FirstSymbolClosure(g, S2)

\* the nonterminals that reach themselves along first symbols
LeftRecursive(g) ==
    {X \in DOMAIN g : X \in FirstSymbolClosure(g, FirstSymbolsOf(g, X))}

\* <<A, i, j>>: two alternatives of A that begin with the same symbol
CommonPrefixes(g) ==
    {t \in UNION {{<<X, i, j>> : i, j \in 1..Len(g[X])} : X \in DOMAIN g} :
        t[2] < t[3] /\ CommonPrefix(g[t[1]][t[2]], g[t[1]][t[3]]) # <<>>}

\* the SELECT sets of the alternatives of some nonterminal intersect
Disjoint(sel) ==
    \A X \in DOMAIN sel : \A i, j \in 1..Len(sel[X]) :
        i # j => sel[X][i] \cap sel[X][j] = {}

\* build_analysis_sets has run on the loaded grammar, in a call of its own
\* or within parse
Transformed == pg_pc \in {"built", "failed", "parsed"}

-----------------------------------------------------------------------------
(* Properties of the grammar pipeline, checked under GrammarSpec *)

(* C4: for a grammar that build_analysis_sets accepts and a token list    *)
(* that ends with EOF, parse ends without further recursion, returns an    *)
(* AST exactly when the tokens before EOF are a sentence of the grammar,   *)
(* and raises a ParseError otherwise.                                      *)
C4_ParseDecidesMembership ==
    pg_pc = "parsed" =>
        /\ parse_result.outcome \in {"ast", "ParseError"}
        /\ (parse_result.outcome = "ast") <=>
               (InputTypes(p_tokens) \in
                    Sentences(LoadedGrammar(grammar_rules), start_symbol,
                              MaxTokens))

(* C5: build_analysis_sets completes only if the SELECT sets of the       *)
(* alternatives of every nonterminal are pairwise disjoint; if two of them *)
(* intersect it raises a ParseError that names the nonterminal, the two    *)
(* productions and the terminals they share, analysis_sets_built stays     *)
(* false, and generate_compiler_code produces no compiler.                 *)
C5_BuildOnlyIfLL1 ==
    /\ analysis_sets_built => Disjoint(select_sets)
    /\ (Transformed /\ build_error.kind # "KeyError" /\ ~Disjoint(select_sets))
           => build_error.kind = "ParseError"
    /\ build_error.kind = "ParseError" =>
           /\ ~analysis_sets_built
           /\ pg_pc = "failed"
           /\ build_error.nonterminal \in DOMAIN grammar
           /\ \E i, j \in 1..Len(grammar[build_error.nonterminal]) :
                 /\ i < j
                 /\ build_error.production1 =
                        ProductionText(grammar[build_error.nonterminal][i])
                 /\ build_error.production2 =
                        ProductionText(grammar[build_error.nonterminal][j])
                 /\ build_error.conflict_tokens =
                        select_sets[build_error.nonterminal][i]
                            \cap select_sets[build_error.nonterminal][j]
                 /\ build_error.conflict_tokens # {}
    /\ compiler.generated =>
           LET ids == identify_symbols(compiler.grammar)
           IN Disjoint(precompute_select_sets(
                           compiler.grammar, compiler.first_sets,
                           compiler.follow_sets, ids.non_terminals,
                           ids.terminals))
    /\ compiler.error.kind = "ParseError" => ~compiler.generated
    /\ (compiler # NoCompiler /\ compiler.error.kind = "none")
           => compiler.generated

\* a build that the LL(1) check has stopped: the first and the third of
\* three alternatives share a terminal
C5_Witness ==
    /\ pg_pc = "failed"
    /\ build_error.kind = "ParseError"
    /\ build_error.conflict_tokens # {}
    /\ ~analysis_sets_built
    /\ Len(grammar[build_error.nonterminal]) = 3
    /\ select_sets[build_error.nonterminal][1]
           \cap select_sets[build_error.nonterminal][3] # {}
    /\ select_sets[build_error.nonterminal][1]
           \cap select_sets[build_error.nonterminal][2] = {}

(* C6: after _eliminate_left_recursion and the rest of the transformation *)
(* no nonterminal of the grammar reaches itself by following the first     *)
(* symbol of a production, whatever the input grammar.                     *)
C6_NoLeftRecursion == Transformed => LeftRecursive(grammar) = {}

(* C7: after _perform_left_factoring no two alternatives of one           *)
(* nonterminal, the X_LF_TAIL_k nonterminals included, begin with a common *)
(* prefix.                                                                 *)
C7_NoCommonPrefix == Transformed => CommonPrefixes(grammar) = {}

(* C8: the transformed grammar generates the language of the grammar that *)
(* was loaded: every sentence of one is a sentence of the other.           *)
C8_LanguagePreserved ==
    Transformed =>
        Sentences(grammar, start_symbol, MaxTokens)
            = Sentences(LoadedGrammar(grammar_rules), start_symbol, MaxTokens)

-----------------------------------------------------------------------------
(* The grammars and programs of CompileSpec *)

MaxOps == 2

nStmt == <<"S", "t", "m", "t">>
nExpr == <<"E", "x", "p", "r">>
nExprTail == <<"E", "x", "p", "r", "T", "a", "i", "l">>
nTerm == <<"T", "e", "r", "m">>
nTermTail == <<"T", "e", "r", "m", "T", "a", "i", "l">>
nFactor == <<"F", "a", "c", "t", "o", "r">>
nOperand == <<"O", "p", "e", "r", "a", "n", "d">>
nTail == <<"T", "a", "i", "l">>
nOpGroup == <<"O", "p", "G", "r", "o", "u", "p">>
T_AND == <<"A", "N", "D">>

\* a grammar dictionary from <<nonterminal, productions>> pairs
RulesOf(pairs) ==
    [nt \in {pairs[i][1] : i \in 1..Len(pairs)} |->
        pairs[CHOOSE i \in 1..Len(pairs) : pairs[i][1] = nt][2]]

AssignmentRule ==
    <<nStmt, << <<Quote(T_ID), Quote(T_ASSIGN), nExpr, Quote(T_SEMI)>> >> >>

\* the expression grammar with two levels of precedence
PrecedenceGrammar ==
    RulesOf(<< AssignmentRule,
        <<nExpr, << <<nTerm, nExprTail>> >> >>,
        <<nExprTail, << <<Quote(T_PLUS), nTerm, nExprTail>>, <<>> >> >>,
        <<nTerm, << <<nFactor, nTermTail>> >> >>,
        <<nTermTail, << <<Quote(T_MUL), nFactor, nTermTail>>, <<>> >> >>,
        <<nFactor, << <<Quote(T_NUM)>>, <<Quote(T_ID)>>,
                      <<Quote(T_LPAREN), nExpr, Quote(T_RPAREN)>> >> >> >>)

OperatorTypes == {T_PLUS, T_MINUS, T_MUL, T_AND}

OperandRule == <<nOperand, << <<Quote(T_NUM)>>, <<Quote(T_ID)>> >> >>

\* one tail production Tail -> op Operand Tail for every operator
TailGrammar ==
    RulesOf(<< AssignmentRule,
        <<nExpr, << <<nOperand, nTail>> >> >>,
        <<nTail, << <<Quote(T_PLUS), nOperand, nTail>>,
                    <<Quote(T_MINUS), nOperand, nTail>>,
                    <<Quote(T_MUL), nOperand, nTail>>,
                    <<Quote(T_AND), nOperand, nTail>>, <<>> >> >>,
        OperandRule >>)

\* the tail production Tail -> OpGroup
OpGroupGrammar ==
    RulesOf(<< AssignmentRule,
        <<nExpr, << <<nOperand, nTail>> >> >>,
        <<nTail, << <<nOpGroup>>, <<>> >> >>,
        <<nOpGroup, << <<Quote(T_PLUS), nOperand, nTail>>,
                       <<Quote(T_MINUS), nOperand, nTail>>,
                       <<Quote(T_MUL), nOperand, nTail>>,
                       <<Quote(T_AND), nOperand, nTail>> >> >>,
        OperandRule >>)

LanguageGrammars == {PrecedenceGrammar, TailGrammar, OpGroupGrammar}

\* the lexeme of an operator type
Lexeme(type) ==
    CASE type = T_PLUS -> <<"+">>
      [] type = T_MINUS -> <<"-">>
      [] type = T_MUL -> <<"*">>
      [] type = T_AND -> <<"&">>

\* <<type, value>> pairs as tokens of line 1, one column apart, then EOF
Lexed(pairs) ==
    [i \in 1..(Len(pairs) + 1) |->
        IF i <= Len(pairs) THEN Token(pairs[i][1], pairs[i][2], 1, i)
        ELSE Token(EOF, <<>>, 1, i)]

\* the k-th operand of a chain: the number k
OperandAt(k) == <<T_NUM, IntToStr(k)>>

\* 1 op 2 op 3 ..., for the operator types of ops
RECURSIVE ChainFrom(_, _)
ChainFrom(ops, k) ==
    IF k > Len(ops) THEN <<>>
    ELSE << <<ops[k], Lexeme(ops[k])>>, OperandAt(k + 1) >> \o ChainFrom(ops, k + 1)

Chain(ops) == <<OperandAt(1)>> \o ChainFrom(ops, 1)

tkLPAREN == <<T_LPAREN, <<"(">>>>
tkRPAREN == <<T_RPAREN, <<")">>>>

\* ( 1 op 2 ) op 3
ParenLeft(ops) ==
    <<tkLPAREN>> \o Chain(<<ops[1]>>) \o <<tkRPAREN>> \o ChainFrom(ops, 2)

\* x = expr ;
Assignment(expr) ==
    Lexed(<< <<T_ID, <<"x">>>>, <<T_ASSIGN, <<"=">>>> >> \o expr \o << <<T_SEMI, <<";">>>> >>)

Programs ==
    {Assignment(Chain(ops)) : ops \in SeqsUpTo(OperatorTypes, MaxOps)}
        \cup {Assignment(ParenLeft(ops)) : ops \in [1..2 -> OperatorTypes]}

CompileInit ==
    /\ LexInit
    /\ ParserInit
    /\ grammar_rules \in LanguageGrammars
    /\ start = nStmt

CompileNext ==
    \/ \E red \in BOOLEAN : create_parser_from_spec(red)
    \/ build_analysis_sets
    \/ parse(Programs)
    \/ generate_compiler_code(FALSE)

CompileSpec == CompileInit /\ [][CompileNext]_vars

-----------------------------------------------------------------------------
(* The statement language of StatementSpec: declarations, assignments,     *)
(* input and output, loops and conditionals                                *)

\* a bound on the number of statements of the generated programs
MaxStmts == 1

nProgram == <<"P", "r", "o", "g", "r", "a", "m">>
nStmtList == <<"S", "t", "m", "t", "L", "i", "s", "t">>
nDecl == <<"D", "e", "c", "l">>
nDeclTail == <<"D", "e", "c", "l", "T", "a", "i", "l">>
nCond == <<"C", "o", "n", "d">>

StatementGrammar ==
    RulesOf(<<
        <<nProgram, << <<nStmtList>> >> >>,
        <<nStmtList, << <<nStmt, nStmtList>>, <<>> >> >>,
        <<nStmt, << <<Quote(T_ID), Quote(T_ASSIGN), nExpr, Quote(T_SEMI)>>,
                    <<Quote(T_WHILE), Quote(T_LPAREN), nCond, Quote(T_RPAREN),
                      nStmt>>,
                    <<Quote(T_IF), Quote(T_LPAREN), nCond, Quote(T_RPAREN),
                      nStmt>>,
                    <<Quote(T_WRITE), Quote(T_LPAREN), nExpr, Quote(T_RPAREN),
                      Quote(T_SEMI)>>,
                    <<Quote(T_READ), Quote(T_ID), Quote(T_SEMI)>>,
                    <<Quote(T_VAR), nDecl, Quote(T_SEMI)>>,
                    <<Quote(T_LBRACE), nStmtList, Quote(T_RBRACE)>> >> >>,
        <<nDecl, << <<Quote(T_ID), nDeclTail>> >> >>,
        <<nDeclTail, << <<Quote(T_COMMA), Quote(T_ID), nDeclTail>>, <<>> >> >>,
        <<nCond, << <<nExpr, Quote(T_LT), nExpr>> >> >>,
        <<nExpr, << <<nTerm, nExprTail>> >> >>,
        <<nExprTail, << <<Quote(T_PLUS), nTerm, nExprTail>>, <<>> >> >>,
        <<nTerm, << <<Quote(T_NUM)>>, <<Quote(T_ID)>> >> >> >>)

\* the words of a source text and their tokens
Words ==
    (<<"v", "a", "r">> :> T_VAR) @@ (<<"w", "h", "i", "l", "e">> :> T_WHILE) @@ (<<"i", "f">> :> T_IF)
        @@ (<<"w", "r", "i", "t", "e">> :> T_WRITE) @@ (<<"r", "e", "a", "d">> :> T_READ)
        @@ (<<"=">> :> T_ASSIGN) @@ (<<";">> :> T_SEMI) @@ (<<",">> :> T_COMMA)
        @@ (<<"(">> :> T_LPAREN) @@ (<<")">> :> T_RPAREN)
        @@ (<<"{">> :> T_LBRACE) @@ (<<"}">> :> T_RBRACE)
        @@ (<<"<">> :> T_LT) @@ (<<"+">> :> T_PLUS)

Digits == {"0", "1", "2", "3", "4", "5", "6", "7", "8", "9"}

\* the <<type, value>> pair of a word
WordPair(w) ==
    IF w \in DOMAIN Words THEN <<Words[w], w>>
    ELSE IF Range(w) \subseteq Digits THEN <<T_NUM, w>>
    ELSE <<T_ID, w>>

\* the <<type, value>> pairs of the words ws
Pairs(ws) == [i \in 1..Len(ws) |-> WordPair(ws[i])]

\* if ( x < 1 ) y = 2 ;
Conditional == <<<<"i", "f">>, <<"(">>, <<"x">>, <<"<">>, <<"1">>, <<")">>, <<"y">>, <<"=">>, <<"2">>, <<";">>>>

\* the statements the generated programs are made of
StatementPool ==
    {<<<<"v", "a", "r">>, <<"x">>, <<";">>>>,
     <<<<"v", "a", "r">>, <<"x">>, <<",">>, <<"i", "t", "e", "m">>, <<";">>>>,
     <<<<"x">>, <<"=">>, <<"1">>, <<";">>>>,
     <<<<"y">>, <<"=">>, <<"x">>, <<";">>>>,
     <<<<"x", "y">>, <<"=">>, <<"x">>, <<"+">>, <<"1">>, <<";">>>>,
     <<<<"t", "1">>, <<"=">>, <<"x">>, <<"+">>, <<"y">>, <<";">>>>,
     <<<<"w", "r", "i", "t", "e">>, <<"(">>, <<"x">>, <<")">>, <<";">>>>,
     <<<<"r", "e", "a", "d">>, <<"x">>, <<";">>>>,
     <<<<"w", "h", "i", "l", "e">>, <<"(">>, <<"x">>, <<"<">>, <<"3">>, <<")">>, <<"x">>, <<"=">>, <<"x">>, <<"+">>, <<"1">>, <<";">>>>,
     Conditional}

\* var i ; i = 0 ; while ( i < 3 ) { write ( i ) ; i = i + 1 ; }
CountingLoop ==
    <<<<"v", "a", "r">>, <<"i">>, <<";">>, <<"i">>, <<"=">>, <<"0">>, <<";">>,
      <<"w", "h", "i", "l", "e">>, <<"(">>, <<"i">>, <<"<">>, <<"3">>, <<")">>, <<"{">>,
      <<"w", "r", "i", "t", "e">>, <<"(">>, <<"i">>, <<")">>, <<";">>,
      <<"i">>, <<"=">>, <<"i">>, <<"+">>, <<"1">>, <<";">>, <<"}">>>>

\* var x ; y = 1 ;
UndeclaredTarget == <<<<"v", "a", "r">>, <<"x">>, <<";">>, <<"y">>, <<"=">>, <<"1">>, <<";">>>>

\* var xy ; x = 1 ;
ShorterTarget == <<<<"v", "a", "r">>, <<"x", "y">>, <<";">>, <<"x">>, <<"=">>, <<"1">>, <<";">>>>

\* x = 1 + 2 ;
Sum == <<<<"x">>, <<"=">>, <<"1">>, <<"+">>, <<"2">>, <<";">>>>

\* x = ;
MissingOperand == <<<<"x">>, <<"=">>, <<";">>>>

\* programs written out
ExamplePrograms ==
    {CountingLoop, UndeclaredTarget, ShorterTarget, Sum, MissingOperand,
     <<<<"y">>, <<"=">>, <<"1">>, <<";">>, <<"y">>, <<"=">>, <<"2">>, <<";">>>>,
     <<<<"v", "a", "r">>, <<"i", "t", "e", "m">>, <<";">>, <<"x">>, <<"=">>, <<"1">>, <<";">>>>,
     <<<<"v", "a", "r">>, <<"x">>, <<",">>, <<"y">>, <<";">>, <<"x", "y">>, <<"=">>, <<"x">>, <<";">>>>,
     <<<<"v", "a", "r">>, <<"x">>, <<";">>, <<"x">>, <<"=">>, <<"y">>, <<";">>>>,
     <<<<"t", "1">>, <<"=">>, <<"5">>, <<";">>, <<"x">>, <<"=">>, <<"t", "1">>, <<"+">>, <<"1">>, <<";">>, <<"y">>, <<"=">>, <<"t", "1">>, <<";">>>>,
     <<<<"i", "f">>, <<"(">>, <<"x">>, <<"<">>, <<"1">>, <<")">>, <<"{">>, <<"w", "r", "i", "t", "e">>, <<"(">>, <<"x">>, <<"+">>, <<"1">>, <<")">>, <<";">>, <<"}">>>>,
     <<<<"x">>, <<"=">>, <<"1">>, <<";">>, <<")">>>>,
     <<<<"x">>, <<"1">>, <<";">>>>}

\* the token lists of StatementSpec: the programs written out, and every
\* sequence of at most MaxStmts statements of the pool
StatementPrograms ==
    {Lexed(Pairs(ws)) : ws \in ExamplePrograms}
        \cup {Lexed(Pairs(Flatten(ss))) : ss \in SeqsUpTo(StatementPool, MaxStmts)}

\* the sources handed to the generated compiler and to the command line
Sources ==
    {Source(Lexed(Pairs(ws))) :
        ws \in {CountingLoop, Conditional, UndeclaredTarget, ShorterTarget,
                Sum, MissingOperand}}
        \cup {LexicalErrorSource}

StatementInit ==
    /\ LexInit
    /\ ParserInit
    /\ grammar_rules = StatementGrammar
    /\ start = nProgram

StatementNext ==
    \/ \E red \in BOOLEAN : create_parser_from_spec(red)
    \/ build_analysis_sets
    \/ parse(StatementPrograms)
    \/ \E red \in BOOLEAN : generate_compiler_code(red)
    \/ compile(Sources)
    \/ compile_file(Sources)
    \/ cmd_compile(Sources)

StatementSpec == StatementInit /\ [][StatementNext]_vars


-----------------------------------------------------------------------------
(* Properties of the translation, checked under CompileSpec *)

\* the operator types between the operands of an assignment x = chain ;
ChainOps(toks) == [k \in 1..((Len(toks) - 5) \div 2) |-> toks[2 * k + 2].type]

\* the token list is x = 1 op 2 op 3 ... ; for some operators
IsChainProgram(toks) ==
    /\ Len(toks) >= 5
    /\ (Len(toks) - 5) % 2 = 0
    /\ Range(ChainOps(toks)) \subseteq OperatorTypes
    /\ toks = Assignment(Chain(ChainOps(toks)))

\* the left-associative fold: t_k = acc op operand for the k-th operator,
\* acc being the previous result, and the assignment of the last result
RECURSIVE FoldInstructions(_, _, _)
FoldInstructions(ops, k, acc) ==
    IF k > Len(ops) THEN << <<"x", " ", "=", " ">> \o acc >>
    ELSE LET t == <<"t">> \o IntToStr(k)
         IN << t \o <<" ", "=", " ">> \o acc \o <<" ">> \o Lexeme(ops[k]) \o <<" ">>
                 \o IntToStr(k + 1) >>
                \o FoldInstructions(ops, k + 1, t)

(* C9: with the expression grammar of two precedence levels, x = 1 + 2 * 3 ; *)
(* is translated to t1 = 2 * 3, t2 = 1 + t1, x = t2, and                    *)
(* x = ( 1 + 2 ) * 3 ; to t1 = 1 + 2, t2 = t1 * 3, x = t2.                   *)
C9_PrecedenceInCode ==
    (pg_pc = "parsed" /\ grammar_rules = PrecedenceGrammar) =>
        /\ p_tokens = Assignment(Chain(<<T_PLUS, T_MUL>>)) =>
               code_buffer = << <<"t", "1", " ", "=", " ", "2", " ", "*", " ", "3">>, <<"t", "2", " ", "=", " ", "1", " ", "+", " ", "t", "1">>, <<"x", " ", "=", " ", "t", "2">> >>
        /\ p_tokens = Assignment(ParenLeft(<<T_PLUS, T_MUL>>)) =>
               code_buffer = << <<"t", "1", " ", "=", " ", "1", " ", "+", " ", "2">>, <<"t", "2", " ", "=", " ", "t", "1", " ", "*", " ", "3">>, <<"x", " ", "=", " ", "t", "2">> >>

(* C10: a chain a op1 b op2 c parsed through Tail -> op Operand Tail or   *)
(* Tail -> OpGroup is translated to one instruction t = acc op operand per *)
(* operator occurrence, from left to right, whatever the type of the       *)
(* operator token; no operator is dropped.                                 *)
C10_LeftFoldOfTails ==
    (/\ pg_pc = "parsed"
     /\ grammar_rules \in {TailGrammar, OpGroupGrammar}
     /\ IsChainProgram(p_tokens))
        => /\ parse_result.outcome = "ast"
           /\ code_buffer = FoldInstructions(ChainOps(p_tokens), 1, IntToStr(1))

-----------------------------------------------------------------------------
(* Properties of the statement language, checked under StatementSpec *)

\* the parser has returned an AST for the tokens of the words ws
Accepted(ws) ==
    /\ pg_pc = "parsed"
    /\ parse_result.outcome = "ast"
    /\ p_tokens = Lexed(Pairs(ws))

\* the generated compiler has returned code for the tokens of the words ws
Compiled(ws) ==
    /\ compiler.result.outcome = "code"
    /\ compiler.tokens = Lexed(Pairs(ws))

\* p is a prefix of the instruction s
IsPrefix(p, s) == Len(p) <= Len(s) /\ SubSeq(s, 1, Len(p)) = p

\* the tokens hold a token of the type
HasToken(toks, type) == \E i \in DOMAIN toks : toks[i].type = type

\* the label of a label line
LabelOf(ln) == SubSeq(ln, 1, Len(ln) - 1)

\* the instruction is a label line
IsLabelLine(ln) == Len(ln) >= 2 /\ ln[1] = "L" /\ ln[Len(ln)] = ":"

\* the instructions of a loop: a label line, later a conditional branch,
\* later the goto back to the label, and then the exit label line
HasLoop(code) ==
    \E a, b, c \in DOMAIN code :
        /\ a < b /\ b < c /\ c < Len(code)
        /\ IsLabelLine(code[a])
        /\ IsPrefix(<<"i", "f", " ">>, code[b])
        /\ code[c] = <<"g", "o", "t", "o", " ">> \o LabelOf(code[a])
        /\ IsLabelLine(code[c + 1])

\* the TAC of CountingLoop
CountingLoopCode ==
    <<<<"i", " ", "=", " ", "0">>, <<"L", "1", ":">>, <<"t", "1", " ", "=", " ", "i", " ", "<", " ", "3">>, <<"t", "2", " ", "=", " ", "n", "o", "t", " ", "t", "1">>, <<"i", "f", " ", "t", "2", " ", "g", "o", "t", "o", " ", "L", "2">>,
      <<"p", "a", "r", "a", "m", " ", "i">>, <<"c", "a", "l", "l", " ", "w", "r", "i", "t", "e", ",", " ", "1">>, <<"t", "3", " ", "=", " ", "i", " ", "+", " ", "1">>, <<"i", " ", "=", " ", "t", "3">>, <<"g", "o", "t", "o", " ", "L", "1">>,
      <<"L", "2", ":">>>>

(* C11: a while statement is translated to the loop label line, the        *)
(* instructions of the condition, t = not C.v, if t goto Lexit, the         *)
(* instructions of the body, goto Lloop and the exit label line, in this     *)
(* order; the TAC of                                                         *)
(* var i ; i = 0 ; while ( i < 3 ) { write ( i ) ; i = i + 1 ; } is i = 0,   *)
(* L1:, t1 = i < 3, t2 = not t1, if t2 goto L2, param i, call write, 1,      *)
(* t3 = i + 1, i = t3, goto L1, L2:.                                         *)
C11_WhileTranslation ==
    /\ Accepted(CountingLoop) => code_buffer = CountingLoopCode
    /\ Compiled(CountingLoop) => compiler.result.code = CountingLoopCode
    /\ (pg_pc = "parsed" /\ parse_result.outcome = "ast"
            /\ HasToken(p_tokens, T_WHILE)) => HasLoop(code_buffer)
    /\ (compiler.result.outcome = "code" /\ HasToken(compiler.tokens, T_WHILE))
           => HasLoop(compiler.result.code)

\* p is a suffix of the instruction s
IsSuffix(p, s) ==
    Len(p) <= Len(s) /\ SubSeq(s, Len(s) - Len(p) + 1, Len(s)) = p

\* the instructions of a conditional: a conditional branch to a label, and
\* later the line of that label
HasBranchOver(code) ==
    \E b, d \in DOMAIN code :
        /\ b < d
        /\ IsLabelLine(code[d])
        /\ IsPrefix(<<"i", "f", " ">>, code[b])
        /\ IsSuffix(<<" ", "g", "o", "t", "o", " ">> \o LabelOf(code[d]), code[b])

\* the TAC of Conditional
ConditionalCode ==
    <<<<"t", "1", " ", "=", " ", "x", " ", "<", " ", "1">>, <<"t", "2", " ", "=", " ", "n", "o", "t", " ", "t", "1">>, <<"i", "f", " ", "t", "2", " ", "g", "o", "t", "o", " ", "L", "1">>, <<"y", " ", "=", " ", "2">>, <<"L", "1", ":">>>>

(* C12: an if statement is translated to the instructions of the condition, *)
(* t = not C.v, if t goto Lexit, the instructions of the body and the label  *)
(* line Lexit:, with one fresh label; the conditional branch precedes every  *)
(* instruction of the body.                                                  *)
C12_IfTranslation ==
    /\ Accepted(Conditional) => code_buffer = ConditionalCode
    /\ (pg_pc = "parsed" /\ parse_result.outcome = "ast"
            /\ HasToken(p_tokens, T_IF)) => HasBranchOver(code_buffer)
    /\ (compiler.result.outcome = "code" /\ HasToken(compiler.tokens, T_IF))
           => HasBranchOver(compiler.result.code)

\* the instruction of a call of write
CallWrite == <<"c", "a", "l", "l", " ", "w", "r", "i", "t", "e", ",", " ", "1">>

\* the positions of the calls of write in the code
WriteCalls(code) == {i \in DOMAIN code : code[i] = CallWrite}

\* the positions of the tokens of the type
TokensOfType(toks, type) == {i \in DOMAIN toks : toks[i].type = type}

\* the code calls write once for every output statement of the tokens, and
\* every call follows the instruction that passes its parameter
WritesOnlyForOutput(toks, code) ==
    /\ Cardinality(WriteCalls(code)) = Cardinality(TokensOfType(toks, T_WRITE))
    /\ \A i \in WriteCalls(code) : i > 1 /\ IsPrefix(<<"p", "a", "r", "a", "m", " ">>, code[i - 1])

\* write ( x ) ;
Output == <<<<"w", "r", "i", "t", "e">>, <<"(">>, <<"x">>, <<")">>, <<";">>>>

(* C13: an output statement K 'LPAREN' E 'RPAREN' 'SEMI' with a write-kind  *)
(* keyword K is translated to param E.v followed by call write, 1, and call  *)
(* write, 1 is emitted for no other production, in particular not for a     *)
(* 'WHILE' or an 'IF' production.                                            *)
C13_WriteTranslation ==
    /\ Accepted(Output) => code_buffer = <<<<"p", "a", "r", "a", "m", " ", "x">>, CallWrite>>
    /\ (pg_pc = "parsed" /\ parse_result.outcome = "ast")
           => WritesOnlyForOutput(p_tokens, code_buffer)
    /\ compiler.result.outcome = "code"
           => WritesOnlyForOutput(compiler.tokens, compiler.result.code)

\* the words of an instruction, separated by blanks
RECURSIVE WordsOf(_, _)
WordsOf(s, word) ==
    IF s = <<>> THEN (IF word = <<>> THEN <<>> ELSE <<word>>)
    ELSE IF Head(s) = " "
    THEN (IF word = <<>> THEN <<>> ELSE <<word>>) \o WordsOf(Tail(s), <<>>)
    ELSE WordsOf(Tail(s), Append(word, Head(s)))

\* the word is the name of a temporary: t and a number
IsTemp(w) == Len(w) >= 2 /\ w[1] = "t" /\ \A i \in 2..Len(w) : w[i] \in Digits

\* the instruction assigns to the name
Defines(ln, name) ==
    Len(WordsOf(ln, <<>>)) >= 2 /\ WordsOf(ln, <<>>)[1] = name
        /\ WordsOf(ln, <<>>)[2] = <<"=">>

\* the instruction has the name as an operand
Uses(ln, name) ==
    \E i \in DOMAIN WordsOf(ln, <<>>) :
        /\ WordsOf(ln, <<>>)[i] = name
        /\ ~(i = 1 /\ Defines(ln, name))

\* the temporaries of the code
TempsOf(code) ==
    {w \in UNION {Range(WordsOf(code[i], <<>>)) : i \in DOMAIN code} : IsTemp(w)}

\* every temporary is defined once, before its uses
DefinedOnceBeforeUse(code) ==
    \A t \in TempsOf(code) :
        /\ Cardinality({i \in DOMAIN code : Defines(code[i], t)}) = 1
        /\ \A i \in DOMAIN code :
              Uses(code[i], t) => \E j \in 1..(i - 1) : Defines(code[j], t)

(* C14: in the TAC of every source the parser accepts, every temporary tN   *)
(* is the target of exactly one instruction, and that instruction precedes   *)
(* every instruction with tN as an operand.                                  *)
C14_TemporariesDefinedOnce ==
    /\ (pg_pc = "parsed" /\ parse_result.outcome = "ast")
           => DefinedOnceBeforeUse(code_buffer)
    /\ compiler.result.outcome = "code"
           => DefinedOnceBeforeUse(compiler.result.code)

\* the code generation attributes of a parser that has not parsed yet
NewAttributes ==
    [code_buffer |-> <<>>, temp_counter |-> 0, label_counter |-> 0,
     symbol_table |-> EmptyDict, semantic_errors |-> <<>>]

\* the parse of the tokens of the ParserGenerator by a ParserGenerator of
\* the same grammar that has not parsed before
FirstParse ==
    ParseTokens([grammar |-> grammar, select_sets |-> select_sets,
                 first_sets |-> first_sets, follow_sets |-> follow_sets,
                 tokens |-> p_tokens, red |-> requires_explicit_declaration],
                start_symbol, NewAttributes)

\* the parse of the tokens of the generated compiler by the parser of a
\* generated compiler that has not compiled before
FirstCompile ==
    GeneratedParser_parse(ParserContext(compiler, compiler.tokens),
                          NewAttributes)

\* the code, the counters and the symbol table of sdt are those of the run r
SameTranslation(sdt, r) ==
    /\ sdt.code_buffer = r.sdt.code_buffer
    /\ sdt.temp_counter = r.sdt.temp_counter
    /\ sdt.label_counter = r.sdt.label_counter
    /\ sdt.symbol_table = r.sdt.symbol_table

\* the compiler has run its parser
HasParsed(c) ==
    c.compiles > 0 /\ ~(c.result.outcome = "SyntaxError"
                           /\ c.result.error = LexicalErrorSource.error)

(* C15: a parse on a parser that has parsed before leaves the code, the     *)
(* temporary counter, the label counter and the symbol table that a parser   *)
(* that has not parsed before leaves for the same tokens, so compiling the   *)
(* same source twice on one instance yields identical TAC, numbered from t1  *)
(* and L1.                                                                   *)
C15_SameCodeOnEveryCall ==
    /\ pg_pc = "parsed" => SameTranslation(CurrentAttributes, FirstParse)
    /\ HasParsed(compiler)
           => SameTranslation(ParserAttributes(compiler), FirstCompile)
    /\ compiler.result.outcome = "code"
           => Join(<<"\n">>, compiler.result.code)
                  = get_generated_code(FirstCompile.sdt.code_buffer)

\* the generated compiler has compiled twice, the second time to code with
\* a temporary
C15_Witness ==
    /\ compiler.compiles = 2
    /\ compiler.result.outcome = "code"
    /\ compiler.temp_counter > 0
    /\ pg_pc = "new"

\* what compile returns or raises for the tokens of compiler c on a
\* generated compiler of the same grammar that has not compiled before
FirstResults(c) ==
    {x.result :
        x \in GeneratedCompiler_compile(
                  [c EXCEPT !.code_buffer = <<>>, !.temp_counter = 0,
                            !.label_counter = 0, !.symbol_table = EmptyDict,
                            !.semantic_errors = <<>>],
                  Source(c.tokens))}

\* the last compile has failed
HasFailed(c) == c.result.outcome \notin {"none", "code"}

\* a step of compile or compile_file that runs the parser
CompileStep ==
    /\ compiler.generated
    /\ compiler'.compiles = compiler.compiles + 1
    /\ HasParsed(compiler')

(* C16: a compile that fails with a lexical, a syntax or a semantic error   *)
(* leaves nothing behind: the next compile on the same generated compiler    *)
(* returns or raises what a compiler that has not compiled before returns or *)
(* raises for the source, so a valid source is compiled to the same TAC and  *)
(* the semantic errors of the failed compile are not reported again; the     *)
(* grammar and the analysis sets of the compiler are unchanged.              *)
C16_FailureContained ==
    [][(CompileStep /\ HasFailed(compiler))
           => /\ compiler'.result \in FirstResults(compiler')
              /\ compiler'.grammar = compiler.grammar
              /\ compiler'.first_sets = compiler.first_sets
              /\ compiler'.follow_sets = compiler.follow_sets]_vars

\* the positions of the identifier uses of the tokens: the identifiers of
\* expressions, which follow an operator, the assignment sign or a parenthesis
UsePositions(toks) ==
    {i \in 2..Len(toks) :
        /\ toks[i].type = T_ID
        /\ toks[i - 1].type \in {T_ASSIGN, T_PLUS, T_LT, T_LPAREN}}

\* the names in the symbol table when the token at position i is reduced:
\* the names declared before it, and the targets of the assignments that
\* end before it
NamesBefore(toks, i) ==
    {toks[j].value : j \in {k \in 2..(i - 1) :
                               /\ toks[k].type = T_ID
                               /\ toks[k - 1].type \in {T_VAR, T_COMMA}}}
        \cup {toks[j].value : j \in {k \in 1..(i - 1) :
                                        /\ toks[k].type = T_ID
                                        /\ toks[k + 1].type = T_ASSIGN
                                        /\ \E m \in (k + 1)..(i - 1) :
                                              toks[m].type = T_SEMI}}

\* the entries of the error list for the token at position i: the tokens of
\* a source are in one line, and the column of a token is its position
ErrorsAt(errors, toks, i) ==
    {n \in DOMAIN errors : /\ errors[n].column = toks[i].column
                           /\ errors[n].var_name = toks[i].value}

\* every use of an undeclared name has its one entry in the error list, and
\* a use of a declared name has none
UsesChecked(toks, errors) ==
    \A i \in UsePositions(toks) :
        Cardinality(ErrorsAt(errors, toks, i))
            = IF toks[i].value \in NamesBefore(toks, i) THEN 0 ELSE 1

\* the parser of the compiler has parsed the source to its end: compile has
\* returned the code or has raised for the semantic errors
ParsedToEnd(c) ==
    \/ c.result.outcome = "code"
    \/ c.result.error.message = "semantic errors"

(* C17: with require_explicit_declaration true, every reduction of an       *)
(* identifier use in an expression whose name is not in the symbol table     *)
(* appends one undeclared-variable error to the list of semantic errors, and *)
(* a use of a declared name appends none.                                    *)
C17_UndeclaredUseDetected ==
    /\ (pg_pc = "parsed" /\ parse_result.outcome = "ast"
            /\ requires_explicit_declaration)
           => UsesChecked(p_tokens, semantic_errors)
    /\ (compiler.compiles = 1 /\ ParsedToEnd(compiler)
            /\ compiler.requires_explicit_declaration)
           => UsesChecked(compiler.tokens, compiler.semantic_errors)

\* the positions of the assignment targets of the tokens
TargetPositions(toks) ==
    {i \in 1..(Len(toks) - 1) :
        toks[i].type = T_ID /\ toks[i + 1].type = T_ASSIGN}

\* with require_explicit_declaration, a target that is not in the symbol
\* table has its one entry among the errors, and a target that is there has
\* none; without it no target has an entry; the targets are in the table
TargetsChecked(toks, errors, red, table) ==
    \A i \in TargetPositions(toks) :
        /\ Cardinality(ErrorsAt(errors, toks, i))
               = IF red /\ toks[i].value \notin NamesBefore(toks, i) THEN 1
                 ELSE 0
        /\ toks[i].value \in DOMAIN table

\* the errors a step of compile has appended to the list of the parser
AppendedErrors ==
    SubSeq(compiler'.semantic_errors, Len(compiler.semantic_errors) + 1,
           Len(compiler'.semantic_errors))

(* C18: with require_explicit_declaration true, an assignment whose target  *)
(* is not in the symbol table records exactly one undeclared-variable error  *)
(* for it, and for var x ; y = 1 ; the list has exactly one entry, naming y  *)
(* and suggesting x; with require_explicit_declaration false the assignment  *)
(* declares the target and records no error; an assignment to a declared     *)
(* name records no error.                                                    *)
C18_AssignmentTargetsChecked ==
    [][/\ (pg_pc' = "parsed" /\ parse_result'.outcome = "ast")
              => /\ TargetsChecked(p_tokens', semantic_errors',
                                   requires_explicit_declaration',
                                   symbol_table')
                 /\ ~requires_explicit_declaration' => semantic_errors' = <<>>
                 /\ (requires_explicit_declaration'
                         /\ p_tokens' = Lexed(Pairs(UndeclaredTarget)))
                        => /\ Len(semantic_errors') = 1
                           /\ semantic_errors'[1].var_name = <<"y">>
                           /\ semantic_errors'[1].suggestion = <<"x">>
       /\ (CompileStep /\ ParsedToEnd(compiler'))
              => /\ TargetsChecked(compiler'.tokens, AppendedErrors,
                                   compiler.requires_explicit_declaration,
                                   compiler'.symbol_table)
                 /\ ~compiler.requires_explicit_declaration
                        => AppendedErrors = <<>>]_vars

\* var x ; y = 1 ; has been parsed with require_explicit_declaration, and
\* the one error is recorded
C18_Witness ==
    /\ Accepted(UndeclaredTarget)
    /\ requires_explicit_declaration
    /\ Len(semantic_errors) = 1

\* the edit distance of two strings, by its recurrence
RECURSIVE EditDistance(_, _)
EditDistance(a, b) ==
    IF a = <<>> THEN Len(b)
    ELSE IF b = <<>> THEN Len(a)
    ELSE SetMin({EditDistance(Tail(a), b) + 1,
                 EditDistance(a, Tail(b)) + 1,
                 EditDistance(Tail(a), Tail(b))
                     + (IF Head(a) = Head(b) THEN 0 ELSE 1)})

\* the edit distance without regard to case
Distance(u, d) == EditDistance(lower(u), lower(d))

\* the error e for the undeclared name u, the declared names being D,
\* suggests a nearest declared name if that is within distance 2, and lists
\* the declared names otherwise
SuggestsNearest(e, u, D) ==
    IF \E d \in D : Distance(u, d) <= 2
    THEN /\ e.suggestion \in D
         /\ \A d \in D : Distance(u, e.suggestion) <= Distance(u, d)
         /\ e.hint = <<>>
    ELSE /\ e.suggestion = NoneVal
         /\ e.hint = SortedStrs(D)

\* every error of the run on toks follows the rule: the column of an error
\* is the position of the token of the undeclared name
ErrorsSuggestNearest(toks, errors) ==
    \A n \in DOMAIN errors :
        SuggestsNearest(errors[n], errors[n].var_name,
                        NamesBefore(toks, errors[n].column))

(* C19: the error recorded for an undeclared name u suggests a declared     *)
(* name of minimal case-insensitive Levenshtein distance to u whenever that  *)
(* minimum is at most 2, also when the length of the name differs from that  *)
(* of u, and lists all declared names otherwise.                             *)
C19_SuggestionRule ==
    /\ pg_pc = "parsed" => ErrorsSuggestNearest(p_tokens, semantic_errors)
    /\ (compiler.compiles = 1 /\ HasParsed(compiler))
           => ErrorsSuggestNearest(compiler.tokens, compiler.semantic_errors)

\* the run of a ParserGenerator of the same grammar that has not parsed
\* before and does not check declarations, on the tokens of the
\* ParserGenerator
UncheckedParse ==
    ParseTokens([grammar |-> grammar, select_sets |-> select_sets,
                 first_sets |-> first_sets, follow_sets |-> follow_sets,
                 tokens |-> p_tokens, red |-> FALSE],
                start_symbol, NewAttributes)

\* the same for the parser of the generated compiler
UncheckedCompile ==
    GeneratedParser_parse(
        ParserContext([compiler EXCEPT !.requires_explicit_declaration = FALSE],
                      compiler.tokens),
        NewAttributes)

\* what the run r raised, or "ast" when it returned
OutcomeOf(r) == IF r.exc = NoException THEN "ast" ELSE r.exc.kind

\* parse returns or raises what it does without the declaration checks, at
\* the same position, whatever semantic errors it records
ErrorsCollected ==
    pg_pc = "parsed"
        => /\ parse_result.outcome = OutcomeOf(UncheckedParse)
           /\ p_pos = UncheckedParse.pos

\* compile returns the code if and only if its parser has returned and the
\* list of semantic errors is empty then; the parser stops where it stops
\* without the declaration checks, and a compile that fails returns no code
CodeIffNoErrors ==
    HasParsed(compiler)
        => /\ compiler.result.outcome = "code"
                  <=> /\ UncheckedCompile.exc = NoException
                      /\ compiler.semantic_errors = <<>>
           /\ compiler.pos = UncheckedCompile.pos
           /\ compiler.result.outcome # "code"
                  => /\ compiler.result.code = <<>>
                     /\ compiler.result.outcome = "SyntaxError"

\* the output file is written only by a compile_file whose compile has
\* returned the code, with that code, and by a compile command whose parse
\* has returned, with the code of the parser; the list of semantic errors
\* is empty then.  A compile_file that ends the process and a compile
\* command that fails write nothing.
WrittenIffNoErrors ==
    /\ output_file' # output_file
           => \/ /\ compiler'.compiles = compiler.compiles + 1
                 /\ compiler'.result.outcome = "code"
                 /\ compiler'.semantic_errors = <<>>
                 /\ output_file' = WrittenLines(compiler'.result.code)
              \/ /\ pg_pc = "new" /\ pg_pc' = "parsed"
                 /\ parse_result'.outcome = "ast"
                 /\ semantic_errors' = <<>>
                 /\ output_file' = get_generated_code(code_buffer')
    /\ (compiler'.exited /\ ~compiler.exited)
           => /\ compiler'.result.outcome # "code"
              /\ output_file' = output_file
    /\ (pg_pc = "new" /\ pg_pc' = "parsed")
           => /\ semantic_errors' = <<>>
              /\ parse_result'.outcome = "ast"
                     <=> output_file' = get_generated_code(code_buffer')
              /\ parse_result'.outcome # "ast" => output_file' = output_file

TellsOffendingToken(e, tok) ==
    /\ e.line = tok.line
    /\ e.column = tok.column
    /\ e.found_type = tok.type
    /\ e.found_value = tok.value
    /\ e.expected # {}
    /\ tok.type \notin e.expected

(* C22: whenever parse rejects the tokens, the syntax error raised tells    *)
(* the line and the column of the offending token, the set of expected       *)
(* terminals and the token found, both when a terminal of the chosen         *)
(* production does not match the current token and when the lookahead is in  *)
(* no SELECT set of the nonterminal expanded.                                *)
C22_SyntaxErrorInformative ==
    (pg_pc = "parsed" /\ parse_result.outcome = "ParseError")
        => TellsOffendingToken(parse_result.error,
                               current_token(p_tokens, p_pos))

-----------------------------------------------------------------------------
(* The empty source on small grammars: the specification EmptySourceSpec   *)

\* the tokens of the empty source: the EOF token at line 1, column 1
EmptySource == TokensOf(<<>>)

EmptySourceNext ==
    \/ create_parser_from_spec(FALSE)
    \/ build_analysis_sets
    \/ parse({EmptySource})
    \/ generate_compiler_code(FALSE)
    \/ compile({Source(EmptySource)})

EmptySourceSpec == GrammarInit /\ [][EmptySourceNext]_vars

\* the start symbol ss of the grammar handed in derives the empty string
DerivesEmpty(ss) == <<>> \in Sentences(LoadedGrammar(grammar_rules), ss, 0)

(* C23: for every grammar that is accepted, compiling the empty source, the *)
(* token list [EOF], succeeds with empty TAC if and only if the start symbol *)
(* derives the empty string; otherwise it fails with a syntax error at line  *)
(* 1, column 1.                                                              *)
C23_EmptySource ==
    /\ (pg_pc = "parsed" /\ p_tokens = EmptySource)
           => IF DerivesEmpty(start_symbol)
              THEN /\ parse_result.outcome = "ast"
                   /\ code_buffer = <<>>
              ELSE /\ parse_result.outcome = "ParseError"
                   /\ parse_result.error.line = 1
                   /\ parse_result.error.column = 1
    /\ (HasParsed(compiler) /\ compiler.tokens = EmptySource)
           => IF DerivesEmpty(compiler.start_symbol)
              THEN /\ compiler.result.outcome = "code"
                   /\ compiler.result.code = <<>>
              ELSE /\ compiler.result.outcome = "SyntaxError"
                   /\ compiler.result.error.line = 1
                   /\ compiler.result.error.column = 1

-----------------------------------------------------------------------------
(* The rewrite of immediate left recursion, checked under GrammarSpec *)

\* the alternatives of A in g that begin with A, without that A
RecursiveRests(g, A) ==
    LET IsRec(production) == production # <<>> /\ production[1] = A
        recs(ps) == SelectSeq(ps, IsRec)
    IN [k \in 1..Len(recs(g[A])) |-> Tail(recs(g[A])[k])]

\* the alternatives of A in g that do not begin with A
OtherAlternatives(g, A) ==
    LET NotRec(production) == production = <<>> \/ production[1] # A
    IN SelectSeq(g[A], NotRec)

\* every production of ps, followed by the symbol s
EachFollowedBy(ps, s) == [k \in 1..Len(ps) |-> Append(ps[k], s)]

\* the nonterminals of g with an alternative that begins with themselves
ImmediatelyLeftRecursive(g) ==
    {A \in DOMAIN g : RecursiveRests(g, A) # <<>>}

(* C26: for a nonterminal A of the loaded grammar with the alternatives    *)
(* A a1 | ... | A am | b1 | ... | bn, m >= 1, build_analysis_sets leaves A  *)
(* with exactly the alternatives b1 A_TAIL | ... | bn A_TAIL, and A_TAIL,   *)
(* which was not in the grammar before, with exactly the alternatives       *)
(* a1 A_TAIL | ... | am A_TAIL | epsilon, in whatever order.                *)
C26_TailRewrite ==
    Transformed =>
        \A A \in ImmediatelyLeftRecursive(LoadedGrammar(grammar_rules)) :
            /\ (A \o TAIL) \notin DOMAIN LoadedGrammar(grammar_rules)
            /\ (A \o TAIL) \in DOMAIN grammar
            /\ Range(grammar[A]) =
                   Range(EachFollowedBy(
                       OtherAlternatives(LoadedGrammar(grammar_rules), A),
                       A \o TAIL))
            /\ Range(grammar[A \o TAIL]) =
                   Range(EachFollowedBy(
                       RecursiveRests(LoadedGrammar(grammar_rules), A),
                       A \o TAIL)) \cup {<<>>}

-----------------------------------------------------------------------------
(* FIRST and FOLLOW as least fixed points, checked under GrammarSpec *)

\* FIRST of a sequence of symbols when the nonterminals have the sets F
RECURSIVE FirstOfSequence(_, _, _)
FirstOfSequence(F, terms, sequence) ==
    IF sequence = <<>> THEN {EPSILON}
    ELSE IF is_terminal(terms, sequence[1])
         THEN {token_type_of(sequence[1])}
         ELSE (Get(F, sequence[1], {}) \ {EPSILON})
                  \cup (IF EPSILON \in Get(F, sequence[1], {})
                        THEN FirstOfSequence(F, terms, Tail(sequence))
                        ELSE {})

\* the defining rules of FIRST, applied once to all the sets F at a time
FirstRules(g, terms, F) ==
    [X \in DOMAIN F |->
        F[X] \cup UNION {FirstOfSequence(F, terms, g[X][k]) :
                             k \in 1..Len(g[X])}]

RECURSIVE LeastFirst(_, _, _)
LeastFirst(g, terms, F) ==
    IF FirstRules(g, terms, F) = F THEN F
    ELSE LeastFirst(g, terms, FirstRules(g, terms, F))

\* <<A, i, k>>: the symbol at position k of alternative i of A is B
OccurrencesOf(g, B) ==
    {o \in UNION {UNION {{<<A, i, k>> : k \in 1..Len(g[A][i])} :
                             i \in 1..Len(g[A])} : A \in DOMAIN g} :
        g[o[1]][o[2]][o[3]] = B}

\* what the occurrence o of a nonterminal adds to its FOLLOW set
FollowAt(g, terms, F, L, o) ==
    LET rest(p) == SubSeq(p, o[3] + 1, Len(p))
        first_rest(p) == FirstOfSequence(F, terms, rest(p))
    IN (first_rest(g[o[1]][o[2]]) \ {EPSILON})
           \cup (IF EPSILON \in first_rest(g[o[1]][o[2]])
                 THEN L[o[1]] ELSE {})

\* the defining rules of FOLLOW, applied once to all the sets L at a time
FollowRules(g, terms, ss, F, L) ==
    [B \in DOMAIN L |->
        L[B] \cup (IF B = ss THEN {EOF} ELSE {})
             \cup UNION {FollowAt(g, terms, F, L, o) : o \in OccurrencesOf(g, B)}]

RECURSIVE LeastFollow(_, _, _, _, _)
LeastFollow(g, terms, ss, F, L) ==
    IF FollowRules(g, terms, ss, F, L) = L THEN L
    ELSE LeastFollow(g, terms, ss, F, FollowRules(g, terms, ss, F, L))

NoSets(g) == [X \in DOMAIN g |-> {}]

\* build_analysis_sets has computed FIRST and FOLLOW
SetsComputed == Transformed /\ build_error.kind # "KeyError"

(* C27: the FIRST and FOLLOW sets that build_analysis_sets computes are   *)
(* the least fixed points of their defining rules over the transformed     *)
(* grammar: FOLLOW(start) contains EOF, applying the rules once more adds  *)
(* nothing, FIRST of a nonterminal contains epsilon exactly when the       *)
(* nonterminal derives the empty string, and no set holds an element that  *)
(* the rules do not force.                                                 *)
C27_LeastFixedPoints ==
    SetsComputed =>
        /\ EOF \in follow_sets[start_symbol]
        /\ FirstRules(grammar, terminals, first_sets) = first_sets
        /\ FollowRules(grammar, terminals, start_symbol, first_sets,
                       follow_sets) = follow_sets
        /\ \A X \in DOMAIN grammar :
               EPSILON \in first_sets[X] <=> <<>> \in Sentences(grammar, X, 0)
        /\ first_sets = LeastFirst(grammar, terminals, NoSets(grammar))
        /\ follow_sets = LeastFollow(grammar, terminals, start_symbol,
                                     first_sets, NoSets(grammar))

\* a completed build with a nonterminal that derives the empty string and a
\* FOLLOW set that the first pass over the productions leaves incomplete
C27_Witness ==
    /\ pg_pc = "built"
    /\ analysis_sets_built
    /\ \E X \in DOMAIN grammar : EPSILON \in first_sets[X]
    /\ \E X \in DOMAIN grammar :
          /\ Cardinality(follow_sets[X]) >= 2
          /\ follow_sets[X] #
                 FollowPass(grammar,
                            [nt \in non_terminals |->
                                IF nt = start_symbol THEN {EOF} ELSE {}],
                            first_sets, non_terminals, terminals,
                            SortedStrs(non_terminals), 1)[X]

-----------------------------------------------------------------------------
(* The symbol table within one parse, checked under StatementSpec *)

\* the entries of the error list for the assignments to name: the errors
\* recorded at the positions of the targets with that name
TargetErrors(errors, toks, name) ==
    UNION {ErrorsAt(errors, toks, i) :
               i \in {k \in TargetPositions(toks) : toks[k].value = name}}

TargetNames(toks) == {toks[i].value : i \in TargetPositions(toks)}

\* the names that were declared or assigned to in the whole of toks
NamesEntered(toks) == NamesBefore(toks, Len(toks))

\* the second assignment to an undeclared name: a target position behind
\* another one with the same name
Reassigned(toks) ==
    {i \in TargetPositions(toks) :
        \E k \in TargetPositions(toks) : k < i /\ toks[k].value = toks[i].value}

(* C30: within one parse the symbol table only grows: the names declared  *)
(* or assigned to are all in it at the end, an assignment target with an   *)
(* undeclared-variable error is in it, and the assignments to one name     *)
(* record at most one such error, the later ones none.                     *)
C30_OneErrorPerTarget ==
    pg_pc = "parsed" =>
        /\ \A name \in TargetNames(p_tokens) :
               /\ Cardinality(TargetErrors(semantic_errors, p_tokens, name)) <= 1
               /\ TargetErrors(semantic_errors, p_tokens, name) # {}
                      => name \in DOMAIN symbol_table
        /\ parse_result.outcome = "ast" =>
               /\ NamesEntered(p_tokens) \subseteq DOMAIN symbol_table
               /\ \A i \in Reassigned(p_tokens) :
                      ErrorsAt(semantic_errors, p_tokens, i) = {}

\* y = 1 ; y = 2 ; has been parsed with require_explicit_declaration: the
\* one error is that of the first assignment
C30_Witness ==
    /\ pg_pc = "parsed"
    /\ parse_result.outcome = "ast"
    /\ requires_explicit_declaration
    /\ Reassigned(p_tokens) # {}
    /\ Len(semantic_errors) = 1
    /\ semantic_errors[1].var_name = <<"y">>
    /\ semantic_errors[1].column = p_tokens[1].column
    /\ <<"y">> \in DOMAIN symbol_table


Init == LexInit /\ ParserInit /\ grammar_rules = EmptyDict /\ start = <<>>

Next == LexNext

Spec == Init /\ [][Next]_vars

-----------------------------------------------------------------------------
(* The scanner on the lexical rules of a statement language: words,        *)
(* operators, a lexeme of two lines, a rule that matches the empty string  *)
(* and the division sign, which is also the first character of a comment   *)

ScanCatalog ==
    { <<"WORD", "(x|1)+">>, <<"OP", "=|\\+|;">>, <<"TWOLINES", "=\n=">>,
      <<"EMPTY", "x*">>, <<"DIV", "/">> }

\* x = 1 + @ ;
ErrorExample == <<"x", " ", "=", " ", "1", " ", "+", " ", "@", " ", ";">>

\* texts written out: with an unexpected character, of whitespace and
\* comments only, and with tokens after a comment and after a lexeme of
\* two lines
ScanExamples ==
    {ErrorExample,
     <<" ", "\n", "/", "/", " ", "@", "\n", " ">>,
     <<"/", "/", " ", "x">>,
     <<"x", "\n", " ", " ", "1", " ", "/", "/", " ", "=", "\n", "=">>,
     <<"=", "\n", "=", " ", "x">>,
     <<"1", " ", "/", "x">>}

ScanChars == {"x", "@", "/", " ", "\n"}

\* the texts handed to tokenize: the examples and every text of at most
\* MaxTextLen characters
ScanTexts == ScanExamples \cup SeqsUpTo(ScanChars, MaxTextLen)

ScanNext ==
    \/ \E rule \in ScanCatalog : add_token_rule(rule)
    \/ build
    \/ \E t \in ScanTexts : tokenize(t)
    \/ SkipWhitespace
    \/ SkipComment
    \/ EmitToken
    \/ LexicalError
    \/ FinishTokenize

ScanSpec == Init /\ [][ScanNext]_vars

-----------------------------------------------------------------------------
(* Reference definitions used by the lexer properties *)

\* w is in the language of the regular expression ast (by the meaning of
\* the regular expression, not by the automaton)
RECURSIVE Matches(_, _)
RECURSIVE MatchesSeq(_, _, _)
MatchesSeq(subs, i, w) ==
    IF i > Len(subs) THEN w = <<>>
    ELSE \E k \in 0..Len(w) :
            /\ Matches(subs[i], SubSeq(w, 1, k))
            /\ MatchesSeq(subs, i + 1, SubSeq(w, k + 1, Len(w)))

Matches(ast, w) ==
    CASE ast[1] = "LIT" -> w = <<ast[2]>>
      [] ast[1] = "EPS" -> w = <<>>
      [] ast[1] = "CONCAT" -> MatchesSeq(ast[2], 1, w)
      [] ast[1] = "ALT" -> \E k \in 1..Len(ast[2]) : Matches(ast[2][k], w)
      [] ast[1] = "STAR" ->
            \/ w = <<>>
            \/ \E k \in 1..Len(w) :
                  /\ Matches(ast[2], SubSeq(w, 1, k))
                  /\ Matches(ast, SubSeq(w, k + 1, Len(w)))

\* Rules (1-based indices into the rules compiled into the DFA) matching w
RulesMatching(w) ==
    {r \in 1..Len(compiled_patterns) : Matches(RegexParse(compiled_patterns[r][2]), w)}

\* 1-based line and column of the character at 0-based offset p of t
LineOf(t, p) == 1 + Cardinality({i \in 1..p : t[i] = "\n"})

ColumnOf(t, p) ==
    LET nl == {i \in 1..p : t[i] = "\n"}
    IN IF nl = {} THEN p + 1 ELSE p + 1 - SetMax(nl)

\* The step appends a token matched by the DFA (not the closing EOF token)
EmitsToken == lex_pc = "scan" /\ lex_pc' = "scan" /\ Len(tokens') = Len(tokens) + 1

-----------------------------------------------------------------------------
(* C1: tokenize either returns a token list whose last element is an EOF  *)
(* token and which contains no other EOF token, or raises a lexical error *)
(* whose line and column denote a position inside the input.              *)
C1_EofOnceOrErrorInside ==
    /\ lex_pc = "done" =>
          /\ tokens # <<>>
          /\ tokens[Len(tokens)].type = "EOF"
          /\ \A i \in 1..(Len(tokens) - 1) : tokens[i].type # "EOF"
    /\ lex_pc = "error" =>
          \E p \in 0..(Len(text) - 1) :
              /\ lex_error.line = LineOf(text, p)
              /\ lex_error.column = ColumnOf(text, p)

(* C2: every token the scanner emits has as lexeme the longest prefix of  *)
(* the input at the token's offset that matches the regular expression of *)
(* at least one rule, whatever the order of the rules.                    *)
C2_LongestMatch ==
    [][EmitsToken =>
        LET lexeme == tokens'[Len(tokens')].value
        IN /\ pos' = pos + Len(lexeme)
           /\ lexeme = SubSeq(text, pos + 1, pos')
           /\ RulesMatching(lexeme) # {}
           /\ \A m \in (Len(lexeme) + 1)..(Len(text) - pos) :
                 RulesMatching(SubSeq(text, pos + 1, pos + m)) = {}]_vars

\* '==' was scanned as one EQ token although ASSIGN '=' was added first
C2_Witness ==
    /\ lex_pc = "done"
    /\ compiled_patterns = << <<"ASSIGN", "=">>, <<"EQ", "==">> >>
    /\ text = <<"=", "=">>
    /\ Len(tokens) = 2
    /\ tokens[1].type = "EQ" /\ tokens[1].value = <<"=", "=">>

(* C3: a token whose lexeme is matched by several rules takes the type of *)
(* the rule added first; every DFA state is accepting iff its subset      *)
(* contains an accepting NFA state, and it then carries the token type of *)
(* the accepting NFA state with the smallest priority number.             *)
C3_RulePriority ==
    /\ \A i \in 1..Len(tokens) :
          tokens[i].value # <<>> =>
             /\ RulesMatching(tokens[i].value) # {}
             /\ tokens[i].type =
                   compiled_patterns[SetMin(RulesMatching(tokens[i].value))][1]
    /\ \A d \in start_dfa.states :
          LET acc == d \cap DOMAIN start_dfa.nfa.tag
              inf == start_dfa.info[d]
          IN /\ inf.is_accept <=> acc # {}
             /\ inf.is_accept =>
                   /\ inf.priority = SetMin({start_dfa.nfa.tag[n].priority : n \in acc})
                   /\ inf.token_type = compiled_patterns[inf.priority + 1][1]

\* 'a' is matched by KW 'a' and by ID 'a+'; KW was added first and wins
C3_Witness ==
    /\ lex_pc = "done"
    /\ compiled_patterns = << <<"KW", "a">>, <<"ID", "a+">> >>
    /\ text = <<"a">>
    /\ tokens[1].type = "KW"
    /\ \E d \in start_dfa.states :
          Cardinality({start_dfa.nfa.tag[n].priority :
                          n \in d \cap DOMAIN start_dfa.nfa.tag}) = 2

-----------------------------------------------------------------------------
(* Properties of the scanner, checked under ScanSpec *)

\* no rule compiled into the DFA matches a non-empty prefix of t at the
\* 0-based offset p
NoRuleMatchesAt(t, p) ==
    \A m \in 1..(Len(t) - p) : RulesMatching(SubSeq(t, p + 1, p + m)) = {}

\* the rules of words and of operators are compiled into the DFA
ScansStatements ==
    {<<"WORD", "(x|1)+">>, <<"OP", "=|\\+|;">>} \subseteq Range(compiled_patterns)

(* C21: when no rule matches at the start of a token, tokenize raises a     *)
(* lexical error that cites the character at that start and its 1-based line *)
(* and column, and returns no tokens; for the source `x = 1 + @ ;` the error *)
(* cites the character '@' at line 1, column 9.                              *)
C21_LexicalErrorCited ==
    /\ [](/\ lex_pc = "error"
              => /\ tokens = <<>>
                 /\ pos < Len(text)
                 /\ NoRuleMatchesAt(text, pos)
                 /\ lex_error = [line |-> LineOf(text, pos),
                                 column |-> ColumnOf(text, pos),
                                 ch |-> text[pos + 1]]
          /\ (text = ErrorExample /\ ScansStatements
                 /\ lex_pc \in {"done", "error"})
              => /\ lex_pc = "error"
                 /\ lex_error = [line |-> 1, column |-> 9, ch |-> "@"])
    /\ [][(AtToken /\ NoRuleMatchesAt(text, pos)) => lex_pc' = "error"]_vars

\* the unexpected character of `x = 1 + @ ;` has been cited
C21_Witness ==
    /\ text = ErrorExample
    /\ lex_pc = "error"
    /\ lex_error.ch = "@"
    /\ ScansStatements

(* C24: every token that tokenize matches carries the 1-based line and      *)
(* column of the first character of its lexeme in the input: scanning        *)
(* starts at line 1, column 1, a newline increments the line and resets the  *)
(* column to 1, and every other character, of a token or of skipped          *)
(* whitespace, advances the column by one.                                   *)
C24_TokenPositions ==
    [][EmitsToken =>
        /\ tokens'[Len(tokens')].line = LineOf(text, pos)
        /\ tokens'[Len(tokens')].column = ColumnOf(text, pos)
        /\ SubSeq(tokens', 1, Len(tokens)) = tokens]_vars

\* tokens on three lines, after spaces, after a newline and after a comment
C24_Witness ==
    /\ lex_pc = "done"
    /\ text = <<"x", "\n", " ", " ", "1", " ", "/", "/", " ", "=", "\n", "=">>
    /\ Len(tokens) = 4
    /\ tokens[2].line = 2 /\ tokens[2].column = 3
    /\ tokens[3].line = 3 /\ tokens[3].column = 1

\* t after its first line: from the first newline on, or nothing
RECURSIVE FromNewline(_)
FromNewline(t) ==
    IF t = <<>> \/ Head(t) = "\n" THEN t ELSE FromNewline(Tail(t))

\* t consists of whitespace and of comments from // to the end of the line
RECURSIVE OnlyBlank(_)
OnlyBlank(t) ==
    \/ t = <<>>
    \/ IsSpace(Head(t)) /\ OnlyBlank(Tail(t))
    \/ Len(t) >= 2 /\ t[1] = "/" /\ t[2] = "/" /\ OnlyBlank(FromNewline(t))

(* C25: for the empty string and for every input of whitespace and comments *)
(* from // to the end of the line only, tokenize returns exactly one token,  *)
(* of type EOF.                                                              *)
C25_BlankInputGivesEof ==
    (OnlyBlank(text) /\ lex_pc \in {"done", "error"})
        => /\ lex_pc = "done"
           /\ Len(tokens) = 1
           /\ tokens[1].type = "EOF"
           /\ tokens[1].value = <<>>

\* an input of whitespace and a comment on its second line has been scanned
C25_Witness ==
    /\ lex_pc = "done"
    /\ text = <<" ", "\n", "/", "/", " ", "@", "\n", " ">>
    /\ Len(tokens) = 1

\* the steps of the scan loop of tokenize
ScanStep ==
    SkipWhitespace \/ SkipComment \/ EmitToken \/ LexicalError \/ FinishTokenize

\* ScanSpec with a tokenize call that keeps running once it has begun
ScanFairSpec == ScanSpec /\ WF_vars(ScanStep)

\* a rule whose regular expression matches the empty string is compiled
\* into the DFA
HasEmptyRule ==
    \E r \in 1..Len(compiled_patterns) :
        Matches(RegexParse(compiled_patterns[r][2]), <<>>)

(* C28: every token that tokenize matches has a non-empty lexeme, and every *)
(* iteration of the scan loop (whitespace, comment or token) moves the       *)
(* position forward or ends the scan, so tokenize terminates on every input, *)
(* also when the regular expression of a rule matches the empty string: an   *)
(* unmatched character is then a lexical error, not an empty token.          *)
C28_ScanAdvances ==
    /\ [](/\ pos <= Len(text)
          /\ \A i \in 1..Len(tokens) :
                tokens[i].value = <<>> => (i = Len(tokens) /\ lex_pc = "done"))
    /\ [][lex_pc = "scan" => (pos' > pos \/ lex_pc' # "scan")]_vars
    /\ (lex_pc = "scan") ~> (lex_pc \in {"done", "error"})

\* with a rule that matches the empty string, a character that no rule
\* matches has raised the lexical error, after a token
C28_Witness ==
    /\ HasEmptyRule
    /\ lex_pc = "error"
    /\ pos > 0
    /\ lex_error.ch = "@"

\* the rules added after the DFA was built
LaterRules ==
    {token_specs[r] : r \in (Len(compiled_patterns) + 1)..Len(token_specs)}

====
